---- MODULE Spec2Model ----
(***************************************************************************)
(* Timer state machine of the Lakers timer: TimerEngine (timer-engine.js)  *)
(* with the CountdownTimer (countdown-timer.js) and the Stopwatch wrappers *)
(* listening to it, as the application constructs them (app.js 78-82).     *)
(* Times are integer milliseconds.  The clock (performance.now) is the     *)
(* variable now; the browser's frame scheduler is the action Update, which *)
(* fires one pending requestAnimationFrame callback.                       *)
(***************************************************************************)
EXTENDS Integers, Sequences, FiniteSets, TLC

\* ---------------------------------------------------------------- constants
MAX_DURATION == 86400000

UPDATE_INTERVAL == 100

DefaultTargetTime == 300000

\* CountdownTimer.warningThresholds, in the order the code scans them.
warningThresholds == <<60000, 30000, 10000, 5000, 3000, 1000>>

\* Stopwatch.milestoneThresholds, in the order the code scans them.
milestoneThresholds ==
    <<60000, 5 * 60000, 10 * 60000, 15 * 60000, 23 * 60000, 30 * 60000, 60 * 60000>>

LEBRON_MILESTONES == {6, 12, 18, 23, 30, 46, 60}

\* Milliseconds in a minute (1000 * 60 in isAtMilestone).
MillisPerMinute == 1000 * 60

\* The largest number of minutes setDuration accepts.
MaxMinutes == 1440

\* ------------------------------------------------------------------- bounds
\* The clock advances in short steps for MaxFine ms after construction and
\* after each long jump, and makes at most MaxJumps long jumps (of
\* MAX_DURATION each, so that a stopwatch can reach the cap).
MaxFine == 200

MaxJumps == 1

ClockEnd == MaxJumps * MAX_DURATION + MaxFine

\* The clock of a countdown watched for its warnings stops here.
WarningClockEnd == 62000

\* The clock of a run watched for its milestones advances in short steps for
\* MilestoneFine ms after each whole minute, up to MilestoneClockEnd.
MilestoneFine == 200

MilestoneClockEnd == 7 * 60000 + MilestoneFine

\* At most this many completion callbacks are registered on the CountdownTimer.
MaxCallbacks == 1

\* Laps recorded in one run of the lap specification.
MaxLaps == 2

\* The long step of its clock, and the short steps it follows after each.
LapTime == 12345

LapFine == 200

LapClockEnd == LapTime + LapFine

LapSteps == {100, LapTime}

\* Amounts by which the clock advances between two steps of the program.
Steps == {50, 100, MAX_DURATION}

\* Amounts by which the clock advances while warnings are watched.
WarningSteps == {1000, 2000, 5000, 20000, 30000}

\* Amounts by which the clock advances while milestones are watched.
MilestoneSteps == {100, 60000, 5 * 60000}

\* Arguments tried for setTargetTime (two of them out of range).
TargetTimes == {0 - 1, 0, 150, MAX_DURATION, MAX_DURATION + 1}

\* Arguments tried for setMode (the last one is not a mode).
ModeArgs == {"countdown", "stopwatch", "lap"}

\* Arguments tried for setDuration and validateDuration.
DurationMinutes == {0 - 1, 0, MaxMinutes, MaxMinutes + 1}

DurationSeconds == {0 - 1, 0, 30, 60}

\* The events the CountdownTimer constructor subscribes to.
CountdownListeners == {"tick", "complete", "reset"}

\* The events the Stopwatch constructor subscribes to.
StopwatchListeners == {"tick", "reset"}

\* What a further listener on tick may call on the engine ("none": there is
\* no such listener).
ListenerOps == {"none", "pause", "reset", "destroy"}

VARIABLES
    mode,               \* state.mode
    isRunning,          \* state.isRunning
    isPaused,           \* state.isPaused
    currentTime,        \* state.currentTime
    targetTime,         \* state.targetTime
    startTime,          \* state.startTime
    animationFrameId,   \* "null", "live" (names a pending callback) or "stale"
    frames,             \* number of callbacks pending in the frame scheduler
    lastUpdateTime,     \* this.lastUpdateTime
    eventListeners,     \* events that still have the CountdownTimer's listener
    stopwatchListeners, \* events that still have the Stopwatch's listener
    faultyListener,     \* a listener that throws is registered, first, on every event
    tickListener,       \* what the application's listener on tick calls on the engine
    completionCallbacks,\* number of callbacks in CountdownTimer.completionCallbacks
    warningsTriggered,  \* CountdownTimer.warningsTriggered
    milestonesReached,  \* Stopwatch.milestonesReached
    lapTimes,           \* Stopwatch.lapTimes
    lapCallbacks,       \* number of callbacks in Stopwatch.lapCallbacks
    formatCache,        \* TimeFormatter.formatCache, in insertion order
    now,                \* performance.now()
    lastOp,             \* observation: the operation of the last step
    lastArg,            \* observation: its argument (0 when it takes none)
    threw,              \* observation: the last operation threw
    events,             \* observation: events emitted by the last operation, in order
    completionCalls,    \* observation: completion callback payloads of the last operation
    calls,              \* observation: <<event, listener>> for each listener invoked
                        \* by the last operation, in order
    logged,             \* observation: listener exceptions it caught and logged
    warnings,           \* observation: warning thresholds it fired, in order
    milestones,         \* observation: milestones it fired, in order
    returned,           \* observation: what it returned (0 when nothing)
    seen,               \* observation: <<event, isRunning, isPaused>> as the
                        \* listeners of each event of the last operation saw them
    laps,               \* observation: records it handed to the lap callbacks
    wasRunning,         \* observation: the wasRunning flags of its reset events
    destroyed,          \* history: destroy() has been called
    alerts,             \* history: how often each threshold fired since the warning
                        \* set was last cleared
    milestonesFired,    \* history: milestones fired since the last reset event
    completedRun,       \* history: complete was emitted since the countdown time was last given
    afterResume,        \* history: "waiting" from resume() to the next applied
                        \* update, "applied" after that update, "no" otherwise
    resumeTime,         \* history: clock reading of that resume()
    timePaused          \* history: the clock advanced during the pause

vars == <<mode, isRunning, isPaused, currentTime, targetTime, startTime,
          animationFrameId, frames, lastUpdateTime, eventListeners,
          stopwatchListeners, faultyListener, tickListener,
          completionCallbacks, warningsTriggered, milestonesReached,
          lapTimes, lapCallbacks, formatCache,
          now, lastOp, lastArg, threw, events,
          completionCalls, calls, logged, warnings, milestones, returned,
          seen, laps, wasRunning,
          completedRun, afterResume, resumeTime, timePaused,
          destroyed, alerts, milestonesFired>>

Max(a, b) == IF a >= b THEN a ELSE b

Min(a, b) == IF a <= b THEN a ELSE b

\* The engine (and what its listeners own) as one value, so that an operation
\* that calls other operations is the composition of their effects.
Eng ==
    [mode |-> mode, isRunning |-> isRunning, isPaused |-> isPaused,
     currentTime |-> currentTime, targetTime |-> targetTime,
     startTime |-> startTime, animationFrameId |-> animationFrameId,
     frames |-> frames, lastUpdateTime |-> lastUpdateTime,
     eventListeners |-> eventListeners,
     stopwatchListeners |-> stopwatchListeners,
     faultyListener |-> faultyListener, tickListener |-> tickListener,
     completionCallbacks |-> completionCallbacks,
     warningsTriggered |-> warningsTriggered,
     milestonesReached |-> milestonesReached,
     lapTimes |-> lapTimes, lapCallbacks |-> lapCallbacks,
     events |-> <<>>, completionCalls |-> <<>>, calls |-> <<>>,
     logged |-> 0, warnings |-> <<>>, milestones |-> <<>>, threw |-> FALSE,
     returned |-> 0, seen |-> <<>>, laps |-> <<>>,
     wasRunning |-> <<>>]

\* ------------------------------------------------------- frame scheduler
requestAnimationFrame(e) ==
    [e EXCEPT !.frames = @ + 1, !.animationFrameId = "live"]

\* if (this.animationFrameId) { cancelAnimationFrame(...); this.animationFrameId = null; }
cancelAnimationFrame(e) ==
    [e EXCEPT !.frames = IF e.animationFrameId = "live" THEN @ - 1 ELSE @,
              !.animationFrameId = "null"]

\* The scheduler takes the oldest pending callback; the id the engine holds
\* names the newest one, which is the one taken when it is the only one.
fireFrame(e) ==
    [e EXCEPT !.frames = @ - 1,
              !.animationFrameId =
                  IF e.frames = 1 /\ @ = "live" THEN "stale" ELSE @]

\* ------------------------------------------------------- CountdownTimer
CompletionPayload(e) ==
    [mode |-> "countdown", finalTime |-> 0, originalDuration |-> e.targetTime]

RECURSIVE Repeat(_, _)
Repeat(x, n) == IF n = 0 THEN <<>> ELSE <<x>> \o Repeat(x, n - 1)

onComplete(e) ==
    [e EXCEPT !.completionCalls =
                  @ \o Repeat(CompletionPayload(e), e.completionCallbacks)]

\* The thresholds the loop of checkWarnings would accept, by position.
WarningHits(e, time) ==
    {i \in DOMAIN warningThresholds :
        time <= warningThresholds[i]
        /\ warningThresholds[i] \notin e.warningsTriggered}

First(S) == CHOOSE i \in S : \A j \in S : i <= j

\* checkWarnings() that walks the list from its smallest threshold.
checkWarnings_ascending(e, time) ==
    LET hits == WarningHits(e, time) IN
    IF hits = {}
    THEN e
    ELSE LET threshold ==
                 warningThresholds[CHOOSE i \in hits : \A j \in hits : i >= j]
         IN [e EXCEPT !.warningsTriggered = @ \cup {threshold},
                      !.warnings = Append(@, threshold)]

\* checkWarnings() without the break: every accepted threshold fires.
checkWarnings_noBreak(e, time) ==
    LET hits == WarningHits(e, time)
        fired == SelectSeq(warningThresholds,
                           LAMBDA th : time <= th /\ th \notin e.warningsTriggered)
    IN [e EXCEPT !.warningsTriggered = @ \cup {warningThresholds[i] : i \in hits},
                 !.warnings = @ \o fired]

\* checkWarnings() that does not look the threshold up in warningsTriggered.
checkWarnings_noHas(e, time) ==
    LET hits == {i \in DOMAIN warningThresholds : time <= warningThresholds[i]} IN
    IF hits = {}
    THEN e
    ELSE LET threshold == warningThresholds[First(hits)] IN
         [e EXCEPT !.warningsTriggered = @ \cup {threshold},
                   !.warnings = Append(@, threshold)]

checkWarnings(e, time) ==
    LET hits == WarningHits(e, time) IN
    IF hits = {}
    THEN e
    ELSE LET threshold == warningThresholds[First(hits)] IN
         [e EXCEPT !.warningsTriggered = @ \cup {threshold},
                   !.warnings = Append(@, threshold)]

isAtMilestone(time) == (time \div MillisPerMinute) \in LEBRON_MILESTONES

\* checkMilestones() that fires each minute mark once, remembering it in a set.
checkMilestones_once(e, time) ==
    LET minutes == time \div MillisPerMinute IN
    IF isAtMilestone(time) /\ <<"minute", minutes>> \notin e.milestonesReached
    THEN [e EXCEPT !.milestonesReached = @ \cup {<<"minute", minutes>>},
                   !.milestones = Append(@, <<"CountdownTimer", "minute", minutes>>)]
    ELSE e

\* CountdownTimer.checkMilestones
checkMilestones(e, time) ==
    IF isAtMilestone(time)
    THEN [e EXCEPT !.milestones =
              Append(@, <<"CountdownTimer", "minute", time \div MillisPerMinute>>)]
    ELSE e

\* CountdownTimer.onTick
onTick(e) == checkMilestones(checkWarnings(e, e.currentTime), e.currentTime)

\* The CountdownTimer's listener for the event.
CountdownTimer_listener(e, event) ==
    LET e1 == [e EXCEPT !.calls = Append(@, <<event, "CountdownTimer">>)] IN
    IF event = "tick" THEN onTick(e1)
    ELSE IF event = "complete" THEN onComplete(e1)
    ELSE [e1 EXCEPT !.warningsTriggered = {}]

\* ------------------------------------------------------------- Stopwatch
MilestoneHits(e, time) ==
    {i \in DOMAIN milestoneThresholds :
        time >= milestoneThresholds[i]
        /\ <<"threshold", milestoneThresholds[i]>> \notin e.milestonesReached}

Stopwatch_checkMilestones(e, time) ==
    LET hits == MilestoneHits(e, time)
        threshold == milestoneThresholds[First(hits)]
        e1 == IF hits = {}
              THEN e
              ELSE [e EXCEPT !.milestonesReached = @ \cup {<<"threshold", threshold>>},
                             !.milestones =
                                 Append(@, <<"Stopwatch", "threshold", threshold>>)]
        minutes == time \div MillisPerMinute
    IN IF isAtMilestone(time) /\ <<"lebron", minutes>> \notin e1.milestonesReached
       THEN [e1 EXCEPT !.milestonesReached = @ \cup {<<"lebron", minutes>>},
                       !.milestones = Append(@, <<"Stopwatch", "lebron", minutes>>)]
       ELSE e1

Stopwatch_onReset(e) ==
    [e EXCEPT !.lapTimes = <<>>, !.milestonesReached = {}]

\* recordLap() that measures every lap from the start of the run.
recordLap_fromStart(e) ==
    IF e.currentTime = 0
    THEN [e EXCEPT !.threw = TRUE]
    ELSE LET lapData == [lapNumber |-> Len(e.lapTimes) + 1,
                         lapTime |-> e.currentTime,
                         totalTime |-> e.currentTime]
         IN [e EXCEPT !.lapTimes = Append(@, lapData),
                      !.laps = Repeat(lapData, e.lapCallbacks),
                      !.returned = lapData]

\* Stopwatch.recordLap(): the record without its timestamp and its formatted
\* texts; an exception of a lap callback is caught and logged.
recordLap(e) ==
    IF e.currentTime = 0
    THEN [e EXCEPT !.threw = TRUE]
    ELSE LET lapNumber == Len(e.lapTimes) + 1
             previousLapTime == IF Len(e.lapTimes) > 0
                                THEN e.lapTimes[Len(e.lapTimes)].totalTime
                                ELSE 0
             lapData == [lapNumber |-> lapNumber,
                         lapTime |-> e.currentTime - previousLapTime,
                         totalTime |-> e.currentTime]
         IN [e EXCEPT !.lapTimes = Append(@, lapData),
                      !.laps = Repeat(lapData, e.lapCallbacks),
                      !.returned = lapData]

\* The Stopwatch's listener for the event.
Stopwatch_listener(e, event) ==
    LET e1 == [e EXCEPT !.calls = Append(@, <<event, "Stopwatch">>)] IN
    IF event = "tick" THEN Stopwatch_checkMilestones(e1, e1.currentTime)
    ELSE Stopwatch_onReset(e1)

\* ------------------------------------------------------------ TimerEngine
\* emit() is defined after the operations, which a listener may call.
RECURSIVE emit(_, _)

\* pause() that emits its event before it changes the state.
pause_announcesFirst(e) ==
    IF ~e.isRunning \/ e.isPaused
    THEN e
    ELSE LET e1 == emit(e, "pause") IN
         cancelAnimationFrame([e1 EXCEPT !.isPaused = TRUE, !.isRunning = FALSE])

\* pause() that forgets to clear isRunning.
pause_keepsRunning(e) ==
    IF ~e.isRunning \/ e.isPaused
    THEN e
    ELSE emit(cancelAnimationFrame([e EXCEPT !.isPaused = TRUE]), "pause")

pause(e) ==
    IF ~e.isRunning \/ e.isPaused
    THEN e
    ELSE emit(cancelAnimationFrame(
                  [e EXCEPT !.isPaused = TRUE, !.isRunning = FALSE]), "pause")

\* reset() that forgets to clear isPaused.
reset_keepsPaused(e) ==
    LET e1 == cancelAnimationFrame(
                  [e EXCEPT !.isRunning = FALSE,
                            !.wasRunning = Append(@, e.isRunning)])
        e2 == [e1 EXCEPT !.currentTime =
                   IF e1.mode = "countdown" THEN e1.targetTime ELSE 0]
    IN emit(e2, "reset")

reset(e) ==
    LET e1 == cancelAnimationFrame(
                  [e EXCEPT !.isRunning = FALSE, !.isPaused = FALSE,
                            !.wasRunning = Append(@, e.isRunning)])
        e2 == [e1 EXCEPT !.currentTime =
                   IF e1.mode = "countdown" THEN e1.targetTime ELSE 0]
    IN emit(e2, "reset")

ValidMode(m) == m = "countdown" \/ m = "stopwatch"

\* setMode() that announces the mode before it resets.
setMode_announcesFirst(e, m) ==
    LET e1 == IF e.isRunning THEN pause(e) ELSE e
        e2 == emit([e1 EXCEPT !.mode = m], "modeChanged")
    IN reset(e2)

setMode(e, m) ==
    LET e1 == IF e.isRunning THEN pause(e) ELSE e
        e2 == reset([e1 EXCEPT !.mode = m])
    IN emit(e2, "modeChanged")

\* The range check without its upper limit.
ValidTargetTime_noMax(ms) == ~(ms < 0)

ValidTargetTime(ms) == ~(ms < 0) /\ ~(ms > MAX_DURATION)

\* setTargetTime() that leaves currentTime alone.
setTargetTime_keepsCurrent(e, ms) ==
    emit([e EXCEPT !.targetTime = ms], "targetTimeChanged")

setTargetTime(e, ms) ==
    LET e1 == [e EXCEPT !.targetTime = ms,
                        !.currentTime = IF e.mode = "countdown" THEN ms ELSE @]
    IN emit(e1, "targetTimeChanged")

\* start() without the zero-time guard of the countdown.
start_noGuard(e, t) ==
    IF e.isRunning
    THEN e
    ELSE emit(requestAnimationFrame(
                  [e EXCEPT !.isRunning = TRUE, !.isPaused = FALSE,
                            !.startTime = t, !.lastUpdateTime = t]), "start")

\* start() whose refusal also clears isPaused.
start_clearsPause(e, t) ==
    IF e.isRunning
    THEN e
    ELSE IF e.mode = "countdown" /\ e.currentTime <= 0
    THEN emit([e EXCEPT !.isPaused = FALSE], "error")
    ELSE emit(requestAnimationFrame(
                  [e EXCEPT !.isRunning = TRUE, !.isPaused = FALSE,
                            !.startTime = t, !.lastUpdateTime = t]), "start")

start(e, t) ==
    IF e.isRunning
    THEN e
    ELSE IF e.mode = "countdown" /\ e.currentTime <= 0
    THEN emit(e, "error")
    ELSE emit(requestAnimationFrame(
                  [e EXCEPT !.isRunning = TRUE, !.isPaused = FALSE,
                            !.startTime = t, !.lastUpdateTime = t]), "start")

\* resume() that does not re-anchor the clock reference.
resume_noAnchor(e, t) ==
    IF ~e.isPaused
    THEN e
    ELSE emit(requestAnimationFrame(
                  [e EXCEPT !.isRunning = TRUE, !.isPaused = FALSE]), "resume")

\* resume() without its guard.
resume_noGuard(e, t) ==
    emit(requestAnimationFrame(
             [e EXCEPT !.isRunning = TRUE, !.isPaused = FALSE,
                       !.lastUpdateTime = t]), "resume")

resume(e, t) ==
    IF ~e.isPaused
    THEN e
    ELSE emit(requestAnimationFrame(
                  [e EXCEPT !.isRunning = TRUE, !.isPaused = FALSE,
                            !.lastUpdateTime = t]), "resume")

\* The countdown branch adding the elapsed time.
updateCountdown_adds(e, t, deltaTime) ==
    LET e1 == [e EXCEPT !.currentTime = Max(0, @ + deltaTime)] IN
    IF e1.currentTime <= 0
    THEN emit(cancelAnimationFrame(
                  [e1 EXCEPT !.currentTime = 0, !.isRunning = FALSE]), "complete")
    ELSE requestAnimationFrame(emit([e1 EXCEPT !.lastUpdateTime = t], "tick"))

\* The countdown branch stopping through pause(), as the stopwatch branch does.
updateCountdown_viaPause(e, t, deltaTime) ==
    LET e1 == [e EXCEPT !.currentTime = Max(0, @ - deltaTime)] IN
    IF e1.currentTime <= 0
    THEN emit(pause([e1 EXCEPT !.currentTime = 0]), "complete")
    ELSE requestAnimationFrame(emit([e1 EXCEPT !.lastUpdateTime = t], "tick"))

updateCountdown(e, t, deltaTime) ==
    LET e1 == [e EXCEPT !.currentTime = Max(0, @ - deltaTime)] IN
    IF e1.currentTime <= 0
    THEN emit(cancelAnimationFrame(
                  [e1 EXCEPT !.currentTime = 0, !.isRunning = FALSE]), "complete")
    ELSE requestAnimationFrame(emit([e1 EXCEPT !.lastUpdateTime = t], "tick"))

\* The stopwatch branch without the maximum-duration check.
updateStopwatch_noCap(e, t, deltaTime) ==
    LET e1 == [e EXCEPT !.currentTime = @ + deltaTime] IN
    requestAnimationFrame(emit([e1 EXCEPT !.lastUpdateTime = t], "tick"))

updateStopwatch(e, t, deltaTime) ==
    LET e1 == [e EXCEPT !.currentTime = @ + deltaTime] IN
    IF e1.currentTime >= MAX_DURATION
    THEN emit(pause([e1 EXCEPT !.currentTime = MAX_DURATION]), "maxDurationReached")
    ELSE requestAnimationFrame(emit([e1 EXCEPT !.lastUpdateTime = t], "tick"))

\* update() that counts one interval for every callback it applies.
update_countsCallbacks(e, t) ==
    IF ~e.isRunning \/ e.isPaused
    THEN e
    ELSE LET deltaTime == t - e.lastUpdateTime IN
         IF deltaTime >= UPDATE_INTERVAL
         THEN IF e.mode = "countdown"
              THEN updateCountdown(e, t, UPDATE_INTERVAL)
              ELSE updateStopwatch(e, t, UPDATE_INTERVAL)
         ELSE requestAnimationFrame(e)

\* update() that applies whatever time has passed.
update_noInterval(e, t) ==
    IF ~e.isRunning \/ e.isPaused
    THEN e
    ELSE LET deltaTime == t - e.lastUpdateTime IN
         IF e.mode = "countdown"
         THEN updateCountdown(e, t, deltaTime)
         ELSE updateStopwatch(e, t, deltaTime)

\* update() that does not reschedule itself when too little time has passed.
update_noReschedule(e, t) ==
    IF ~e.isRunning \/ e.isPaused
    THEN e
    ELSE LET deltaTime == t - e.lastUpdateTime IN
         IF deltaTime >= UPDATE_INTERVAL
         THEN IF e.mode = "countdown"
              THEN updateCountdown(e, t, deltaTime)
              ELSE updateStopwatch(e, t, deltaTime)
         ELSE e

update(e, t) ==
    IF ~e.isRunning \/ e.isPaused
    THEN e
    ELSE LET deltaTime == t - e.lastUpdateTime IN
         IF deltaTime >= UPDATE_INTERVAL
         THEN IF e.mode = "countdown"
              THEN updateCountdown(e, t, deltaTime)
              ELSE updateStopwatch(e, t, deltaTime)
         ELSE requestAnimationFrame(e)

destroy(e) ==
    LET e1 == cancelAnimationFrame(e)
        e2 == [e1 EXCEPT !.eventListeners = {}, !.stopwatchListeners = {},
                         !.faultyListener = FALSE, !.tickListener = "none",
                         !.isRunning = FALSE, !.isPaused = FALSE]
    IN emit(e2, "destroyed")

\* The application's listener on tick, calling an operation of the engine.
applicationListener(e, op) ==
    LET e1 == [e EXCEPT !.calls = Append(@, <<"tick", "application">>)] IN
    IF op = "pause" THEN pause(e1)
    ELSE IF op = "reset" THEN reset(e1)
    ELSE destroy(e1)

\* emit() without the try/catch around the callback: the exception of the
\* faulty listener leaves emit(), and no later listener is invoked.
emit_noCatch(e, event) ==
    LET e0 == [e EXCEPT !.events = Append(@, event),
                        !.seen = Append(@, <<event, e.isRunning, e.isPaused>>)]
        e2 == IF event \in e.eventListeners
              THEN CountdownTimer_listener(e0, event) ELSE e0
        e3 == IF event \in e.stopwatchListeners
              THEN Stopwatch_listener(e2, event) ELSE e2
    IN IF e.faultyListener
       THEN [e0 EXCEPT !.calls = Append(@, <<event, "faulty">>), !.threw = TRUE]
       ELSE IF event = "tick" /\ e.tickListener # "none"
       THEN applicationListener(e3, e.tickListener)
       ELSE e3

\* The listeners of the event are invoked in registration order: the faulty
\* one, the CountdownTimer's, the Stopwatch's, the application's.
emit(e, event) ==
    LET e0 == [e EXCEPT !.events = Append(@, event),
                        !.seen = Append(@, <<event, e.isRunning, e.isPaused>>)]
        e1 == IF e.faultyListener
              THEN [e0 EXCEPT !.calls = Append(@, <<event, "faulty">>),
                              !.logged = @ + 1]
              ELSE e0
        e2 == IF event \in e.eventListeners
              THEN CountdownTimer_listener(e1, event) ELSE e1
        e3 == IF event \in e.stopwatchListeners
              THEN Stopwatch_listener(e2, event) ELSE e2
    IN IF event = "tick" /\ e.tickListener # "none"
       THEN applicationListener(e3, e.tickListener)
       ELSE e3

\* --------------------------------------------------------- TimeFormatter
\* A string is the sequence of its characters.
Digits == <<"0", "1", "2", "3", "4", "5", "6", "7", "8", "9">>

IsDigit(c) == \E d \in DOMAIN Digits : Digits[d] = c

DigitValue(c) == (CHOOSE d \in DOMAIN Digits : Digits[d] = c) - 1

AllDigits(s) == \A i \in DOMAIN s : IsDigit(s[i])

\* Number.prototype.toString() of a natural number
RECURSIVE toString(_)
toString(n) ==
    IF n < 10 THEN <<Digits[n + 1]>>
    ELSE toString(n \div 10) \o <<Digits[(n % 10) + 1]>>

\* String.prototype.padStart() with a pad of one character
RECURSIVE padStart(_, _, _)
padStart(s, targetLength, padString) ==
    IF Len(s) >= targetLength THEN s
    ELSE padStart(<<padString>> \o s, targetLength, padString)

\* parseInt(s, 10) of a string of digits
RECURSIVE parseInt(_)
parseInt(s) ==
    IF s = <<>> THEN 0
    ELSE 10 * parseInt(SubSeq(s, 1, Len(s) - 1)) + DigitValue(s[Len(s)])

\* String.prototype.trim(); the only whitespace of the model is the space.
RECURSIVE trim(_)
trim(s) ==
    IF s = <<>> THEN s
    ELSE IF Head(s) = " " THEN trim(Tail(s))
    ELSE IF s[Len(s)] = " " THEN trim(SubSeq(s, 1, Len(s) - 1))
    ELSE s

\* The first argument of formatTime(): a number, a string, null or undefined.
Num(n) == [type |-> "number", num |-> n, str |-> <<>>]

Str(s) == [type |-> "string", num |-> 0, str |-> s]

Null == [type |-> "null", num |-> 0, str |-> <<>>]

Undefined == [type |-> "undefined", num |-> 0, str |-> <<>>]

\* `${milliseconds}`: the text of the argument inside the cache key
TemplateText(v) ==
    CASE v.type = "number" ->
           IF v.num < 0 THEN <<"-">> \o toString(0 - v.num) ELSE toString(v.num)
      [] v.type = "string" -> v.str
      [] v.type = "null" -> <<"n", "u", "l", "l">>
      [] OTHER -> <<"u", "n", "d", "e", "f", "i", "n", "e", "d">>

\* An options object is the set of its <<name, value>> properties, which
\* also stands for its JSON text.
Option(options, name, default) ==
    IF \E p \in options : p[1] = name
    THEN (CHOOSE p \in options : p[1] = name)[2]
    ELSE default

\* A cache key that leaves the options out.
CacheKey_noOptions(v, options) == <<TemplateText(v), {}>>

\* const cacheKey = `${milliseconds}-${JSON.stringify(options)}`
CacheKey(v, options) == <<TemplateText(v), options>>

CacheHas(cache, key) == \E i \in DOMAIN cache : cache[i][1] = key

CacheGet(cache, key) == cache[CHOOSE i \in DOMAIN cache : cache[i][1] = key][2]

maxCacheSize == 1000

\* cacheFormatted(key, value): the oldest entry leaves a full cache.
cacheFormatted(cache, key, value) ==
    Append(IF Len(cache) >= maxCacheSize THEN Tail(cache) ELSE cache,
           <<key, value>>)

\* The text formatTime() builds for a valid number (an integer here, so that
\* Math.floor changes nothing).
Formatted(milliseconds, options) ==
    LET showMilliseconds == Option(options, "showMilliseconds", FALSE)
        forceHours == Option(options, "forceHours", FALSE)
        compact == Option(options, "compact", FALSE)
        showLeadingZero == Option(options, "showLeadingZero", TRUE)
        totalSeconds == milliseconds \div 1000
        ms == milliseconds % 1000
        hours == totalSeconds \div 3600
        minutes == (totalSeconds % 3600) \div 60
        seconds == totalSeconds % 60
        s == padStart(toString(seconds), 2, "0")
        long ==
            LET h == IF showLeadingZero
                     THEN padStart(toString(hours), 2, "0")
                     ELSE toString(hours)
                m == padStart(toString(minutes), 2, "0")
            IN IF compact
               THEN h \o <<"h", " ">> \o m \o <<"m", " ">> \o s \o <<"s">>
               ELSE h \o <<":">> \o m \o <<":">> \o s
        short ==
            LET m == IF showLeadingZero
                     THEN padStart(toString(minutes), 2, "0")
                     ELSE toString(minutes)
            IN IF compact
               THEN m \o <<"m", " ">> \o s \o <<"s">>
               ELSE m \o <<":">> \o s
        formatted == IF forceHours \/ hours > 0 THEN long ELSE short
        msFormatted == padStart(toString(ms), 3, "0")
    IN IF showMilliseconds
       THEN formatted \o (IF compact
                          THEN <<" ">> \o msFormatted \o <<"m", "s">>
                          ELSE <<".">> \o msFormatted)
       ELSE formatted

ZeroText == <<"0", "0", ":", "0", "0">>

\* formatTime(milliseconds, options): its result and the cache it leaves.
formatTime(cache, v, options) ==
    LET cacheKey == CacheKey(v, options) IN
    IF CacheHas(cache, cacheKey)
    THEN [result |-> CacheGet(cache, cacheKey), cache |-> cache]
    ELSE IF v.type # "number" \/ v.num < 0
    THEN [result |-> ZeroText, cache |-> cache]
    ELSE LET formatted == Formatted(v.num, options) IN
         [result |-> formatted,
          cache |-> cacheFormatted(cache, cacheKey, formatted)]

\* /^(\d{1,2}):(\d{2})(?::(\d{2}))?$/: the position of the first colon of a
\* match, and whether the match has the third group.
ColonAt(t) ==
    {k \in 2..3 :
        /\ Len(t) \in {k + 2, k + 5}
        /\ AllDigits(SubSeq(t, 1, k - 1))
        /\ t[k] = ":"
        /\ AllDigits(SubSeq(t, k + 1, k + 2))
        /\ Len(t) = k + 5 => t[k + 3] = ":" /\ AllDigits(SubSeq(t, k + 4, k + 5))}

\* (\d+)u\s* for the unit u
UnitPart(s, unit) ==
    \E k \in 1..(Len(s) - 1) :
        /\ AllDigits(SubSeq(s, 1, k))
        /\ s[k + 1] = unit
        /\ \A i \in (k + 2)..Len(s) : s[i] = " "

\* /^(?:(\d+)h\s*)?(?:(\d+)m\s*)?(?:(\d+)s\s*)?$/: where the hour part and
\* the minute part of a match end.
CompactAt(t) ==
    {ij \in (0..Len(t)) \X (0..Len(t)) :
        /\ ij[1] <= ij[2]
        /\ ij[1] = 0 \/ UnitPart(SubSeq(t, 1, ij[1]), "h")
        /\ ij[2] = ij[1] \/ UnitPart(SubSeq(t, ij[1] + 1, ij[2]), "m")
        /\ ij[2] = Len(t) \/ UnitPart(SubSeq(t, ij[2] + 1, Len(t)), "s")}

\* The digits a unit part starts with; the group is undefined (0) when the
\* part is missing.
RECURSIVE LeadingDigits(_)
LeadingDigits(s) ==
    IF s = <<>> \/ ~IsDigit(Head(s)) THEN <<>>
    ELSE <<Head(s)>> \o LeadingDigits(Tail(s))

Parsed(value) == [ok |-> TRUE, value |-> value]

Failed == [ok |-> FALSE, value |-> 0]

\* parseTime() that ignores the hours of HH:MM:SS.
parseTime_noHours(timeString) ==
    LET trimmed == trim(timeString) IN
    IF trimmed = <<>> THEN Parsed(0)
    ELSE IF ColonAt(trimmed) # {}
    THEN LET k == CHOOSE k \in ColonAt(trimmed) : TRUE
             first == parseInt(SubSeq(trimmed, 1, k - 1))
             second == parseInt(SubSeq(trimmed, k + 1, k + 2))
         IN IF Len(trimmed) = k + 5
            THEN LET third == parseInt(SubSeq(trimmed, k + 4, k + 5)) IN
                 IF second >= 60 \/ third >= 60 THEN Failed
                 ELSE Parsed((second * 60 + third) * 1000)
            ELSE IF second >= 60 THEN Failed
                 ELSE Parsed((first * 60 + second) * 1000)
    ELSE Failed

\* parseTime(timeString) of a string: the milliseconds, or the failure.
parseTime(timeString) ==
    LET trimmed == trim(timeString) IN
    IF trimmed = <<>> THEN Parsed(0)
    ELSE IF ColonAt(trimmed) # {}
    THEN LET k == CHOOSE k \in ColonAt(trimmed) : TRUE
             first == parseInt(SubSeq(trimmed, 1, k - 1))
             second == parseInt(SubSeq(trimmed, k + 1, k + 2))
         IN IF Len(trimmed) = k + 5
            THEN LET third == parseInt(SubSeq(trimmed, k + 4, k + 5)) IN
                 IF second >= 60 \/ third >= 60 THEN Failed
                 ELSE Parsed((first * 3600 + second * 60 + third) * 1000)
            ELSE IF second >= 60 THEN Failed
                 ELSE Parsed((first * 60 + second) * 1000)
    ELSE IF CompactAt(trimmed) # {}
    THEN LET ij == CHOOSE ij \in CompactAt(trimmed) : TRUE
             h == parseInt(LeadingDigits(SubSeq(trimmed, 1, ij[1])))
             m == parseInt(LeadingDigits(SubSeq(trimmed, ij[1] + 1, ij[2])))
             s == parseInt(LeadingDigits(SubSeq(trimmed, ij[2] + 1, Len(trimmed))))
         IN Parsed((h * 3600 + m * 60 + s) * 1000)
    ELSE IF AllDigits(trimmed)
    THEN Parsed(parseInt(trimmed) * 1000)
    ELSE Failed

\* ------------------------------------ TimerEngine.formatTime / parseTime
\* A JavaScript number of these two methods: an integer, or NaN.
NaN == [nan |-> TRUE, int |-> 0]

Number(n) == [nan |-> FALSE, int |-> n]

\* ToNumber() of the argument, as the division milliseconds / 1000 applies it.
ToNumber(v) ==
    CASE v.type = "number" -> Number(v.num)
      [] v.type = "string" ->
           IF AllDigits(trim(v.str)) THEN Number(parseInt(trim(v.str))) ELSE NaN
      [] v.type = "null" -> Number(0)
      [] OTHER -> NaN

\* a % b of JavaScript for b > 0: the result has the sign of a.
Remainder(a, b) == IF a < 0 THEN 0 - ((0 - a) % b) ELSE a % b

\* Number.prototype.toString() of an integer or NaN
numberToString(x) ==
    IF x.nan THEN <<"N", "a", "N">>
    ELSE IF x.int < 0 THEN <<"-">> \o toString(0 - x.int)
    ELSE toString(x.int)

\* TimerEngine.formatTime(milliseconds); Math.floor of a quotient by a
\* positive number is \div.
TimerEngine_formatTime(v) ==
    LET milliseconds == ToNumber(v) IN
    IF milliseconds.nan
    THEN padStart(numberToString(NaN), 2, "0") \o <<":">>
             \o padStart(numberToString(NaN), 2, "0")
    ELSE LET totalSeconds == milliseconds.int \div 1000
             hours == totalSeconds \div 3600
             minutes == Remainder(totalSeconds, 3600) \div 60
             seconds == Remainder(totalSeconds, 60)
         IN IF hours > 0
            THEN padStart(numberToString(Number(hours)), 2, "0") \o <<":">>
                     \o padStart(numberToString(Number(minutes)), 2, "0")
                     \o <<":">>
                     \o padStart(numberToString(Number(seconds)), 2, "0")
            ELSE padStart(numberToString(Number(minutes)), 2, "0") \o <<":">>
                     \o padStart(numberToString(Number(seconds)), 2, "0")

\* String.prototype.split(':')
RECURSIVE split(_)
split(s) ==
    IF \E i \in DOMAIN s : s[i] = ":"
    THEN LET i == CHOOSE i \in DOMAIN s :
                      s[i] = ":" /\ \A j \in 1..(i - 1) : s[j] # ":"
         IN <<SubSeq(s, 1, i - 1)>> \o split(SubSeq(s, i + 1, Len(s)))
    ELSE <<s>>

RECURSIVE trimStart(_)
trimStart(s) ==
    IF s # <<>> /\ Head(s) = " " THEN trimStart(Tail(s)) ELSE s

\* parseInt(part, 10): leading whitespace, a sign, then the leading digits;
\* NaN when there are none.
parseInt10(part) ==
    LET t == trimStart(part)
        negative == t # <<>> /\ Head(t) = "-"
        signed == t # <<>> /\ Head(t) \in {"-", "+"}
        digits == LeadingDigits(IF signed THEN Tail(t) ELSE t)
    IN IF digits = <<>> THEN NaN
       ELSE Number(IF negative THEN 0 - parseInt(digits) ELSE parseInt(digits))

\* The value a parse returns: an integer, or the text NaN.
Returned(x) == IF x.nan THEN "NaN" ELSE x.int

\* TimerEngine.parseTime(timeString): the value it returns, or the failure.
TimerEngine_parseTime(timeString) ==
    LET parts == [i \in DOMAIN split(timeString) |->
                      parseInt10(split(timeString)[i])]
    IN IF Len(parts) = 2
       THEN IF parts[1].nan \/ parts[2].nan THEN Parsed(Returned(NaN))
            ELSE Parsed((parts[1].int * 60 + parts[2].int) * 1000)
       ELSE IF Len(parts) = 3
       THEN IF parts[1].nan \/ parts[2].nan \/ parts[3].nan
            THEN Parsed(Returned(NaN))
            ELSE Parsed((parts[1].int * 3600 + parts[2].int * 60
                             + parts[3].int) * 1000)
       ELSE Failed

\* ------------------------------------------- CountdownTimer operations
IsNumber(x) == x \in Int

\* static validateDuration(minutes, seconds)
validateDuration(minutes, seconds) ==
    LET totalMilliseconds == (minutes * 60 + seconds) * 1000
        errors ==
            (IF ~IsNumber(minutes) \/ ~IsNumber(seconds)
             THEN <<"Minutes and seconds must be numbers">> ELSE <<>>)
            \o (IF minutes < 0 \/ seconds < 0
                THEN <<"Duration cannot be negative">> ELSE <<>>)
            \o (IF minutes > MaxMinutes
                THEN <<"Duration cannot exceed 24 hours">> ELSE <<>>)
            \o (IF seconds >= 60
                THEN <<"Seconds must be less than 60">> ELSE <<>>)
            \o (IF totalMilliseconds = 0
                THEN <<"Duration must be greater than zero">> ELSE <<>>)
    IN [isValid |-> Len(errors) = 0, errors |-> errors,
        totalMilliseconds |-> IF Len(errors) = 0 THEN totalMilliseconds ELSE 0]

\* The checks of setDuration() that throw before the engine is touched.
DurationRejected(minutes, seconds) ==
    \/ minutes < 0 \/ seconds < 0
    \/ minutes > MaxMinutes
    \/ seconds >= 60
    \/ (minutes * 60 + seconds) * 1000 = 0

\* setDuration() past its own checks: engine.setMode, engine.setTargetTime
\* (which throws on a total above MAX_DURATION), warningsTriggered.clear().
setDuration(e, minutes, seconds) ==
    LET totalMilliseconds == (minutes * 60 + seconds) * 1000
        e1 == setMode(e, "countdown")
    IN IF ~ValidTargetTime(totalMilliseconds)
       THEN [e1 EXCEPT !.threw = TRUE]
       ELSE [setTargetTime(e1, totalMilliseconds) EXCEPT
                 !.warningsTriggered = {}, !.returned = totalMilliseconds]

\* ------------------------------------------------------------ the machine
\* No threshold has fired.
NoAlerts == [th \in {warningThresholds[i] : i \in DOMAIN warningThresholds} |-> 0]

\* The engine and its two wrappers after construction.
Constructed ==
    /\ mode = "countdown"
    /\ isRunning = FALSE
    /\ isPaused = FALSE
    /\ currentTime = 0
    /\ targetTime = DefaultTargetTime
    /\ startTime = 0
    /\ animationFrameId = "null"
    /\ frames = 0
    /\ lastUpdateTime = 0
    /\ eventListeners = CountdownListeners
    /\ stopwatchListeners = StopwatchListeners
    /\ completionCallbacks = 0
    /\ warningsTriggered = {}
    /\ milestonesReached = {}
    /\ lapTimes = <<>>
    /\ lapCallbacks = 0
    /\ formatCache = <<>>
    /\ now = 0
    /\ lastOp = "new"
    /\ lastArg = 0
    /\ threw = FALSE
    /\ events = <<>>
    /\ completionCalls = <<>>
    /\ calls = <<>>
    /\ logged = 0
    /\ warnings = <<>>
    /\ milestones = <<>>
    /\ returned = 0
    /\ seen = <<>>
    /\ laps = <<>>
    /\ wasRunning = <<>>
    /\ completedRun = FALSE
    /\ afterResume = "no"
    /\ resumeTime = 0
    /\ timePaused = FALSE
    /\ destroyed = FALSE
    /\ alerts = NoAlerts
    /\ milestonesFired = {}

\* No further listener is registered.
Init ==
    /\ Constructed
    /\ faultyListener = FALSE
    /\ tickListener = "none"

\* A listener that throws was registered on every event before the wrappers
\* were constructed.
FaultInit ==
    /\ Constructed
    /\ faultyListener = TRUE
    /\ tickListener = "none"

\* The application registered a listener on tick that calls pause(), reset()
\* or destroy().
ReentrantInit ==
    /\ Constructed
    /\ faultyListener = FALSE
    /\ tickListener \in ListenerOps \ {"none"}

\* The engine after an operation that returned e.
Commit(e) ==
    /\ mode' = e.mode
    /\ isRunning' = e.isRunning
    /\ isPaused' = e.isPaused
    /\ currentTime' = e.currentTime
    /\ targetTime' = e.targetTime
    /\ startTime' = e.startTime
    /\ animationFrameId' = e.animationFrameId
    /\ frames' = e.frames
    /\ lastUpdateTime' = e.lastUpdateTime
    /\ eventListeners' = e.eventListeners
    /\ stopwatchListeners' = e.stopwatchListeners
    /\ faultyListener' = e.faultyListener
    /\ tickListener' = e.tickListener
    /\ completionCallbacks' = e.completionCallbacks
    /\ warningsTriggered' = e.warningsTriggered
    /\ milestonesReached' = e.milestonesReached
    /\ events' = e.events
    /\ completionCalls' = e.completionCalls
    /\ calls' = e.calls
    /\ logged' = e.logged
    /\ warnings' = e.warnings
    /\ milestones' = e.milestones
    /\ threw' = e.threw
    /\ returned' = e.returned
    /\ lapTimes' = e.lapTimes
    /\ lapCallbacks' = e.lapCallbacks
    /\ seen' = e.seen
    /\ laps' = e.laps
    /\ wasRunning' = e.wasRunning
    /\ UNCHANGED formatCache

Emitted(e, event) == \E i \in 1..Len(e.events) : e.events[i] = event

\* History of the run: kept by no code, read by the properties only.
\* given: the operation gave the countdown its time again; cleared: it left
\* the run that was resumed; applied: it is an update that was applied.
History(e, given, cleared, applied) ==
    LET resumed == Emitted(e, "resume")
        first == applied /\ afterResume = "waiting"
        over == (cleared \/ applied) /\ ~first
    IN
    /\ completedRun' = IF Emitted(e, "complete") THEN TRUE
                       ELSE IF given THEN FALSE ELSE completedRun
    /\ afterResume' = IF resumed THEN "waiting"
                      ELSE IF first THEN "applied"
                      ELSE IF over \/ afterResume = "applied" THEN "no"
                      ELSE afterResume
    /\ resumeTime' = IF resumed THEN now
                     ELSE IF first \/ over \/ afterResume = "applied" THEN 0
                     ELSE resumeTime
    /\ timePaused' = IF Emitted(e, "pause") \/ over \/ afterResume = "applied"
                     THEN FALSE ELSE timePaused

Range(q) == {q[i] : i \in DOMAIN q}

\* History of the wrappers, read by the properties only.  cleared: the
\* operation is a setDuration that cleared the warning set.
WrapperHistory(e, cleared) ==
    /\ destroyed' = (destroyed \/ Emitted(e, "destroyed"))
    /\ alerts' = IF cleared \/ Emitted(e, "reset")
                 THEN NoAlerts
                 ELSE [th \in DOMAIN alerts |->
                          alerts[th] + Cardinality({i \in DOMAIN e.warnings :
                                                      e.warnings[i] = th})]
    /\ milestonesFired' = IF Emitted(e, "reset")
                          THEN {} ELSE milestonesFired \cup Range(e.milestones)

\* A step that emits nothing, and leaves the laps and the formatter alone.
Silent ==
    /\ events' = <<>>
    /\ seen' = <<>>
    /\ laps' = <<>>
    /\ wasRunning' = <<>>
    /\ UNCHANGED <<lapTimes, lapCallbacks, formatCache>>

\* A step that invokes no listener and changes nothing the wrappers own.
Quiet ==
    /\ calls' = <<>>
    /\ logged' = 0
    /\ warnings' = <<>>
    /\ milestones' = <<>>
    /\ returned' = 0
    /\ UNCHANGED <<stopwatchListeners, faultyListener, tickListener,
                   warningsTriggered, milestonesReached,
                   destroyed, alerts, milestonesFired>>

\* The same history across a step that is no engine operation.
Settle ==
    /\ afterResume' = IF afterResume = "applied" THEN "no" ELSE afterResume
    /\ UNCHANGED <<completedRun, resumeTime>>

Thrown(op, arg) ==
    /\ lastOp' = op
    /\ lastArg' = arg
    /\ threw' = TRUE
    /\ Silent
    /\ completionCalls' = <<>>
    /\ UNCHANGED <<mode, isRunning, isPaused, currentTime, targetTime,
                   startTime, animationFrameId, frames, lastUpdateTime,
                   eventListeners, completionCallbacks, now>>
    /\ Settle
    /\ Quiet
    /\ timePaused' = (timePaused /\ afterResume # "applied")

SetMode(m) ==
    IF ~ValidMode(m)
    THEN Thrown("setMode", m)
    ELSE \E e \in {setMode(Eng, m)} :
         /\ Commit(e)
         /\ WrapperHistory(e, FALSE)
         /\ History(e, TRUE, TRUE, FALSE)
         /\ lastOp' = "setMode"
         /\ lastArg' = m
         /\ UNCHANGED now

SetTargetTime(ms) ==
    IF ~ValidTargetTime(ms)
    THEN Thrown("setTargetTime", ms)
    ELSE \E e \in {setTargetTime(Eng, ms)} :
         /\ Commit(e)
         /\ WrapperHistory(e, FALSE)
         /\ History(e, TRUE, FALSE, FALSE)
         /\ lastOp' = "setTargetTime"
         /\ lastArg' = ms
         /\ UNCHANGED now

Start ==
    \E e \in {start(Eng, now)} :
    /\ Commit(e)
    /\ WrapperHistory(e, FALSE)
    /\ History(e, FALSE, Emitted(e, "start"), FALSE)
    /\ lastOp' = "start"
    /\ lastArg' = 0
    /\ UNCHANGED now

Pause ==
    \E e \in {pause(Eng)} :
    /\ Commit(e)
    /\ WrapperHistory(e, FALSE)
    /\ History(e, FALSE, Emitted(e, "pause"), FALSE)
    /\ lastOp' = "pause"
    /\ lastArg' = 0
    /\ UNCHANGED now

Resume ==
    \E e \in {resume(Eng, now)} :
    /\ Commit(e)
    /\ WrapperHistory(e, FALSE)
    /\ History(e, FALSE, FALSE, FALSE)
    /\ lastOp' = "resume"
    /\ lastArg' = 0
    /\ UNCHANGED now

Reset ==
    \E e \in {reset(Eng)} :
    /\ Commit(e)
    /\ WrapperHistory(e, FALSE)
    /\ History(e, TRUE, TRUE, FALSE)
    /\ lastOp' = "reset"
    /\ lastArg' = 0
    /\ UNCHANGED now

Destroy ==
    \E e \in {destroy(Eng)} :
    /\ Commit(e)
    /\ WrapperHistory(e, FALSE)
    /\ History(e, FALSE, TRUE, FALSE)
    /\ lastOp' = "destroy"
    /\ lastArg' = 0
    /\ UNCHANGED now

\* The frame scheduler runs one pending callback.
Update ==
    /\ frames > 0
    /\ \E e \in {update(fireFrame(Eng), now)} :
       /\ Commit(e)
       /\ WrapperHistory(e, FALSE)
       /\ History(e, FALSE, FALSE, e.events # <<>>)
    /\ lastOp' = "update"
    /\ lastArg' = 0
    /\ UNCHANGED now

\* CountdownTimer.start()
CountdownStart ==
    IF currentTime <= 0
    THEN Thrown("CountdownTimer.start", 0)
    ELSE \E e \in {start(Eng, now)} :
         /\ Commit(e)
         /\ WrapperHistory(e, FALSE)
         /\ History(e, FALSE, Emitted(e, "start"), FALSE)
         /\ lastOp' = "CountdownTimer.start"
         /\ lastArg' = 0
         /\ UNCHANGED now

\* CountdownTimer.setDuration(minutes, seconds)
SetDuration(minutes, seconds) ==
    IF DurationRejected(minutes, seconds)
    THEN Thrown("setDuration", <<minutes, seconds>>)
    ELSE \E e \in {setDuration(Eng, minutes, seconds)} :
         /\ Commit(e)
         /\ WrapperHistory(e, ~e.threw)
         /\ History(e, TRUE, TRUE, FALSE)
         /\ lastOp' = "setDuration"
         /\ lastArg' = <<minutes, seconds>>
         /\ UNCHANGED now

\* CountdownTimer.validateDuration(minutes, seconds)
ValidateDuration(minutes, seconds) ==
    /\ lastOp' = "validateDuration"
    /\ lastArg' = <<minutes, seconds>>
    /\ threw' = FALSE
    /\ Silent
    /\ completionCalls' = <<>>
    /\ calls' = <<>>
    /\ logged' = 0
    /\ warnings' = <<>>
    /\ milestones' = <<>>
    /\ returned' = validateDuration(minutes, seconds)
    /\ UNCHANGED <<mode, isRunning, isPaused, currentTime, targetTime,
                   startTime, animationFrameId, frames, lastUpdateTime,
                   eventListeners, completionCallbacks, now,
                   stopwatchListeners, faultyListener, tickListener,
                   warningsTriggered, milestonesReached,
                   destroyed, alerts, milestonesFired>>
    /\ Settle
    /\ timePaused' = (timePaused /\ afterResume # "applied")

\* CountdownTimer.onCompletion(callback)
OnCompletion ==
    /\ completionCallbacks < MaxCallbacks
    /\ completionCallbacks' = completionCallbacks + 1
    /\ lastOp' = "onCompletion"
    /\ lastArg' = 0
    /\ threw' = FALSE
    /\ Silent
    /\ completionCalls' = <<>>
    /\ UNCHANGED <<mode, isRunning, isPaused, currentTime, targetTime,
                   startTime, animationFrameId, frames, lastUpdateTime,
                   eventListeners, now>>
    /\ Settle
    /\ Quiet
    /\ timePaused' = (timePaused /\ afterResume # "applied")

\* Time passes.
Advance(d) ==
    /\ now + d <= ClockEnd
    /\ (now + d) % MAX_DURATION <= MaxFine
    /\ now' = now + d
    /\ Settle
    /\ Quiet
    /\ timePaused' = (isPaused \/ (timePaused /\ afterResume # "applied"))
    /\ lastOp' = "clock"
    /\ lastArg' = 0
    /\ threw' = FALSE
    /\ Silent
    /\ completionCalls' = <<>>
    /\ UNCHANGED <<mode, isRunning, isPaused, currentTime, targetTime,
                   startTime, animationFrameId, frames, lastUpdateTime,
                   eventListeners, completionCallbacks>>

Tick == \E d \in Steps : Advance(d)

ChangeMode == \E m \in ModeArgs : SetMode(m)

ChangeTarget == \E ms \in TargetTimes : SetTargetTime(ms)

Next ==
    \/ ChangeMode
    \/ ChangeTarget
    \/ Start
    \/ Pause
    \/ Resume
    \/ Reset
    \/ Destroy
    \/ Update
    \/ OnCompletion
    \/ Tick

Spec == Init /\ [][Next]_vars

\* The engine driven through the CountdownTimer as well as directly.
ChangeDuration ==
    \E minutes \in DurationMinutes, seconds \in DurationSeconds :
        SetDuration(minutes, seconds)

CheckDuration ==
    \E minutes \in DurationMinutes, seconds \in DurationSeconds :
        ValidateDuration(minutes, seconds)

CountdownNext ==
    \/ ChangeDuration
    \/ CountdownStart
    \/ ChangeTarget
    \/ Start
    \/ Pause
    \/ Resume
    \/ Reset
    \/ Update
    \/ Tick

CountdownSpec == Init /\ [][CountdownNext]_vars

\* A countdown of one minute watched for its warnings: the clock advances in
\* steps of seconds, and is followed only while the countdown runs (the time
\* that passes while it is idle or paused is not counted by the engine).
Passes(d) ==
    /\ isRunning
    /\ now' = now + d
    /\ Settle
    /\ Quiet
    /\ timePaused' = (isPaused \/ (timePaused /\ afterResume # "applied"))
    /\ lastOp' = "clock"
    /\ lastArg' = 0
    /\ threw' = FALSE
    /\ Silent
    /\ completionCalls' = <<>>
    /\ UNCHANGED <<mode, isRunning, isPaused, currentTime, targetTime,
                   startTime, animationFrameId, frames, lastUpdateTime,
                   eventListeners, completionCallbacks>>

Elapse(d) ==
    /\ now + d <= WarningClockEnd
    /\ Passes(d)

Wait == \E d \in WarningSteps : Elapse(d)

OneMinute == SetDuration(1, 0)

WarningNext ==
    \/ OneMinute
    \/ CountdownStart
    \/ Reset
    \/ Update
    \/ Wait

WarningSpec == Init /\ [][WarningNext]_vars

\* Stopwatch.start()
StopwatchStart ==
    \E e \in {start(setMode(Eng, "stopwatch"), now)} :
    /\ Commit(e)
    /\ WrapperHistory(e, FALSE)
    /\ History(e, TRUE, TRUE, FALSE)
    /\ lastOp' = "Stopwatch.start"
    /\ lastArg' = 0
    /\ UNCHANGED now

\* What the duration fields of the page hold: uiController.getCurrentInput()
CurrentInput == [minutes |-> 1, seconds |-> 0]

\* The application's startTimer(data): an exception of the wrappers is
\* caught, logged and shown.
startTimer(e, data, t) ==
    IF data = "countdown"
    THEN IF DurationRejected(CurrentInput.minutes, CurrentInput.seconds)
         THEN [e EXCEPT !.logged = @ + 1]
         ELSE LET e1 == setDuration(e, CurrentInput.minutes, CurrentInput.seconds) IN
              IF e1.threw \/ e1.currentTime <= 0
              THEN [e1 EXCEPT !.threw = FALSE, !.logged = @ + 1]
              ELSE [start(e1, t) EXCEPT !.returned = 0]
    ELSE start(setMode(e, "stopwatch"), t)

StartTimer(data) ==
    \E e \in {startTimer(Eng, data, now)} :
    /\ Commit(e)
    /\ WrapperHistory(e, data = "countdown" /\ Emitted(e, "targetTimeChanged"))
    /\ History(e, TRUE, TRUE, FALSE)
    /\ lastOp' = "startTimer"
    /\ lastArg' = data
    /\ UNCHANGED now

StartPressed == \E data \in {"countdown", "stopwatch"} : StartTimer(data)

\* Stopwatch.recordLap()
RecordLap ==
    /\ Len(lapTimes) < MaxLaps
    /\ IF recordLap(Eng).threw
       THEN Thrown("recordLap", 0)
       ELSE \E e \in {recordLap(Eng)} :
            /\ Commit(e)
            /\ WrapperHistory(e, FALSE)
            /\ Settle
            /\ timePaused' = (timePaused /\ afterResume # "applied")
            /\ lastOp' = "recordLap"
            /\ lastArg' = 0
            /\ UNCHANGED now

\* Stopwatch.onLap(callback)
OnLap ==
    /\ lapCallbacks < MaxCallbacks
    /\ lapCallbacks' = lapCallbacks + 1
    /\ lastOp' = "onLap"
    /\ lastArg' = 0
    /\ threw' = FALSE
    /\ events' = <<>>
    /\ seen' = <<>>
    /\ laps' = <<>>
    /\ wasRunning' = <<>>
    /\ completionCalls' = <<>>
    /\ UNCHANGED <<mode, isRunning, isPaused, currentTime, targetTime,
                   startTime, animationFrameId, frames, lastUpdateTime,
                   eventListeners, completionCallbacks, now,
                   lapTimes, formatCache>>
    /\ Settle
    /\ Quiet
    /\ timePaused' = (timePaused /\ afterResume # "applied")

\* The timers as the page drives them, timed for their laps: the clock is
\* followed while the engine runs, in short steps and in one long one.
Lapse(d) ==
    /\ now + d <= LapClockEnd
    /\ (now + d) % LapTime <= LapFine
    /\ Passes(d)

Stroll == \E d \in LapSteps : Lapse(d)

LapNext ==
    \/ OnLap
    \/ StartPressed
    \/ Pause
    \/ Resume
    \/ Reset
    \/ Destroy
    \/ Update
    \/ RecordLap
    \/ Stroll

LapSpec == Init /\ [][LapNext]_vars

\* A countdown of five minutes that is set and started when the clock reads 0
\* and then left alone: the frame scheduler calls back every UPDATE_INTERVAL
\* milliseconds, so the clock advances once the last callback has run.
ScenarioDuration == 5 * MillisPerMinute

FiveMinutes == ~isRunning /\ SetDuration(5, 0)

Hundred ==
    /\ lastUpdateTime = now
    /\ now + UPDATE_INTERVAL <= ScenarioDuration
    /\ Passes(UPDATE_INTERVAL)

ScenarioNext ==
    \/ OnCompletion
    \/ FiveMinutes
    \/ CountdownStart
    \/ Update
    \/ Hundred

ScenarioSpec == Init /\ [][ScenarioNext]_vars

\* A stopwatch and a countdown of seven minutes watched for their milestones:
\* the clock advances by minutes, and in short steps after each.
Linger(d) ==
    /\ now + d <= MilestoneClockEnd
    /\ (now + d) % MillisPerMinute <= MilestoneFine
    /\ Passes(d)

Minutes == \E d \in MilestoneSteps : Linger(d)

SevenMinutes == SetDuration(7, 0)

MilestoneNext ==
    \/ SevenMinutes
    \/ CountdownStart
    \/ StopwatchStart
    \/ Reset
    \/ Update
    \/ Minutes

MilestoneSpec == Init /\ [][MilestoneNext]_vars

\* The engine with a listener that throws.
FaultNext ==
    \/ ChangeMode
    \/ Start
    \/ Pause
    \/ Resume
    \/ Reset
    \/ Destroy
    \/ Update
    \/ Tick

FaultSpec == FaultInit /\ [][FaultNext]_vars

\* The engine with a listener on tick that calls back into it.
ReentrantNext ==
    \/ ChangeMode
    \/ Start
    \/ Pause
    \/ Resume
    \/ Reset
    \/ Destroy
    \/ Update
    \/ Tick

ReentrantSpec == ReentrantInit /\ [][ReentrantNext]_vars

\* Durations validated and set, on an engine that is started now and then.
DurationNext ==
    \/ CheckDuration
    \/ ChangeDuration
    \/ CountdownStart

DurationSpec == Init /\ [][DurationNext]_vars

\* ------------------------------------------------------------------------
\* The formatter on its own: formatTime() and parseTime() are called with
\* arguments from the sets below, on whatever the cache holds.
MaxCached == 1

Millis ==
    {0, 1000, 59000, 3599000, 3599999, 3600000, 3601000, 3660000,
     MAX_DURATION - 1000, MAX_DURATION}

FormatArguments ==
    {Num(n) : n \in Millis \cup {0 - 1000}}
        \cup {Str(<<"1", "0", "0", "0">>),
              Str(<<"i", "n", "v", "a", "l", "i", "d">>), Null, Undefined}

OptionSets == {{}, {<<"forceHours", TRUE>>}}

TimeStrings ==
    {formatTime(<<>>, Num(n), o).result : n \in Millis, o \in OptionSets}
        \cup {<<>>, <<" ", " ">>,
              <<"0", "5", ":", "3", "0">>, <<"0", ":", "0", "5">>,
              <<"2", "5", ":", "0", "0">>, <<"7", "5", ":", "3", "0">>,
              <<"0", "5", ":", "6", "0">>,
              <<"0", "1", ":", "0", "5", ":", "6", "0">>,
              <<"0", "1", ":", "6", "0", ":", "0", "5">>,
              <<"0", "1", ":", "2", "3", ":", "4", "5">>,
              <<"1", ":", "5">>, <<"1", "0", "0", ":", "0", "0">>,
              <<"1", "h", " ", "3", "0", "m", " ", "5", "s">>,
              <<"5", "m", " ", "3", "0", "s">>, <<"5", "m", "6", "0", "s">>,
              <<"1", "h", " ", "6", "0", "m">>, <<"9", "0", "s">>,
              <<"9", "0">>, <<" ", "9", "0", " ">>,
              <<"i", "n", "v", "a", "l", "i", "d">>, <<"5", "x">>,
              <<"3", "0", "s", " ", "5", "m">>}

\* A call of the formatter: the engine and its wrappers are not involved.
Utility(op, arg, failed, result) ==
    /\ lastOp' = op
    /\ lastArg' = arg
    /\ threw' = failed
    /\ returned' = result
    /\ events' = <<>>
    /\ seen' = <<>>
    /\ laps' = <<>>
    /\ wasRunning' = <<>>
    /\ completionCalls' = <<>>
    /\ calls' = <<>>
    /\ logged' = 0
    /\ warnings' = <<>>
    /\ milestones' = <<>>
    /\ UNCHANGED <<mode, isRunning, isPaused, currentTime, targetTime,
                   startTime, animationFrameId, frames, lastUpdateTime,
                   eventListeners, completionCallbacks, now,
                   stopwatchListeners, faultyListener, tickListener,
                   warningsTriggered, milestonesReached,
                   lapTimes, lapCallbacks,
                   destroyed, alerts, milestonesFired>>
    /\ Settle
    /\ timePaused' = (timePaused /\ afterResume # "applied")

FormatTime(v, options) ==
    LET r == formatTime(formatCache, v, options) IN
    /\ Len(r.cache) <= MaxCached
    /\ formatCache' = r.cache
    /\ Utility("formatTime", <<v, options>>, FALSE, r.result)

ParseTime(timeString) ==
    LET r == parseTime(timeString) IN
    /\ UNCHANGED formatCache
    /\ Utility("parseTime", timeString, ~r.ok, r.value)

\* clearCache()
ClearCache ==
    /\ formatCache' = <<>>
    /\ Utility("clearCache", 0, FALSE, 0)

\* TimerEngine.formatTime(milliseconds)
EngineFormatTime(v) ==
    /\ UNCHANGED formatCache
    /\ Utility("TimerEngine.formatTime", v, FALSE, TimerEngine_formatTime(v))

\* TimerEngine.parseTime(timeString)
EngineParseTime(timeString) ==
    LET r == TimerEngine_parseTime(timeString) IN
    /\ UNCHANGED formatCache
    /\ Utility("TimerEngine.parseTime", timeString, ~r.ok, r.value)

\* Strings given to TimerEngine.parseTime: those of the formatter and one
\* whose parts are no numbers.
EngineTimeStrings == TimeStrings \cup {<<"a", ":", "b">>}

\* Arguments given to TimerEngine.formatTime: those of the formatter, times
\* before zero and times between two seconds.
EngineArguments ==
    FormatArguments \cup {Num(0 - n) : n \in Millis} \cup {Num(n + 500) : n \in Millis}

EngineFormat == \E v \in EngineArguments : EngineFormatTime(v)

EngineParse == \E timeString \in EngineTimeStrings : EngineParseTime(timeString)

Format == \E v \in FormatArguments, options \in OptionSets : FormatTime(v, options)

Parse == \E timeString \in TimeStrings : ParseTime(timeString)

FormatNext ==
    \/ Format
    \/ Parse
    \/ ClearCache

FormatSpec == Init /\ [][FormatNext]_vars

\* The conversions of the engine next to the parser of the formatter.
ConversionNext ==
    \/ EngineFormat
    \/ EngineParse
    \/ Parse

ConversionSpec == Init /\ [][ConversionNext]_vars

TypeOK ==
    /\ mode \in {"countdown", "stopwatch"}
    /\ isRunning \in BOOLEAN
    /\ isPaused \in BOOLEAN
    /\ currentTime \in Int
    /\ targetTime \in Int
    /\ frames \in Nat
    /\ animationFrameId \in {"null", "live", "stale"}
    /\ now \in 0..ClockEnd

\* ------------------------------------------------------------------------
\* A countdown that is left alone: after start() nothing but the clock and
\* the frame scheduler act; the target is chosen while the engine is not
\* running.  The scheduler keeps calling back and the clock keeps advancing.
Retarget == ~isRunning /\ ChangeTarget

LiveNext ==
    \/ Retarget
    \/ Start
    \/ Update
    \/ Tick

LiveSpec == Init /\ [][LiveNext]_vars /\ WF_vars(Update) /\ WF_vars(Tick)

\* Runs that are never paused, their callbacks arriving at uneven distances:
\* closer than the update interval, just at it, and long after it.
JitterSteps == {30, 70, 100, 250}

JitterEnd == 400

Jitter == \E d \in JitterSteps : now + d <= JitterEnd /\ Passes(d)

JitterNext ==
    \/ ChangeMode
    \/ Retarget
    \/ Start
    \/ Update
    \/ Jitter

JitterSpec == Init /\ [][JitterNext]_vars

\* ----------------------------------------------------------- properties
Has(evs, event) == \E i \in 1..Len(evs) : evs[i] = event

EngineFields ==
    <<mode, isRunning, isPaused, currentTime, targetTime, startTime,
      animationFrameId, frames, lastUpdateTime, eventListeners>>

\* The step is a scheduler callback that applied an update.
AppliedUpdate == lastOp' = "update" /\ events' # <<>>

\* C1: isRunning and isPaused are never both true, after any sequence of
\* setMode, setTargetTime, start, pause, resume, reset, destroy and callbacks.
C1_NeverRunningAndPaused == ~(isRunning /\ isPaused)

C1_Witness ==
    lastOp = "pause" /\ events = <<"pause">> /\ isPaused /\ ~isRunning

\* C2: time that passes during a pause is never applied.  pause() keeps
\* currentTime; while the engine is paused neither the clock nor a scheduler
\* callback changes it; resume() keeps it; and the first update applied after
\* a resume at time tr changes it by now - tr (up to the floor 0 of the
\* countdown and the cap of the stopwatch, which every update applies).
C2_PausedTimeNotApplied ==
    [][ /\ (lastOp' \in {"pause", "resume"} => currentTime' = currentTime)
        /\ (isPaused /\ lastOp' \in {"clock", "update"}
               => currentTime' = currentTime /\ isPaused')
        /\ (afterResume = "waiting" /\ AppliedUpdate
               => currentTime' =
                      IF mode = "countdown"
                      THEN Max(0, currentTime - (now - resumeTime))
                      ELSE Min(MAX_DURATION, currentTime + (now - resumeTime)))
      ]_vars

C2_Witness ==
    /\ afterResume = "applied"
    /\ timePaused
    /\ lastOp = "update"
    /\ events = <<"tick">>

C4_Original ==
    [][ mode = "countdown" /\ mode' = "countdown" /\ isRunning /\ isRunning'
            => currentTime' <= currentTime ]_vars

\* C4 amended: in Countdown mode currentTime never increases from one state to
\* the next while the engine stays running, under scheduler callbacks and every
\* operation except setTargetTime; setTargetTime sets currentTime to its
\* argument also on a running engine.
C4_CountdownNonIncreasing ==
    [][ /\ (mode = "countdown" /\ mode' = "countdown" /\ isRunning /\ isRunning'
               /\ ~(lastOp' = "setTargetTime" /\ ~threw')
               => currentTime' <= currentTime)
        /\ (mode = "countdown" /\ lastOp' = "setTargetTime" /\ ~threw'
               => currentTime' = lastArg' /\ isRunning' = isRunning)
      ]_vars

C4_Witness ==
    /\ mode = "countdown"
    /\ isRunning
    /\ lastOp = "update"
    /\ events = <<"tick">>
    /\ currentTime < targetTime

\* C5: a started countdown that is not paused, reset or re-targeted reaches
\* currentTime = 0 with isRunning = false, and never goes below 0.  (The
\* modelled clock ends at ClockEnd: the countdown must start early enough for
\* its time to pass before that.)
C5_CountdownReachesZero ==
    /\ [](currentTime >= 0)
    /\ (isRunning /\ now + currentTime + UPDATE_INTERVAL <= ClockEnd)
           ~> (currentTime = 0 /\ ~isRunning)

C5_Witness ==
    /\ lastOp = "update"
    /\ events = <<"complete">>
    /\ currentTime = 0
    /\ ~isRunning
    /\ targetTime = 150
    /\ now <= MaxFine

\* C6: in Stopwatch mode currentTime never exceeds MAX_DURATION and does not
\* decrease while the engine runs; the update that would reach or pass the cap
\* sets it to MAX_DURATION, stops the engine, emits maxDurationReached and
\* leaves no callback scheduled.
C6_StopwatchCapped ==
    /\ [](mode = "stopwatch" => currentTime <= MAX_DURATION)
    /\ [][ /\ (mode = "stopwatch" /\ mode' = "stopwatch" /\ isRunning
                  /\ (isRunning' \/ lastOp' = "update")
                  => currentTime' >= currentTime)
           /\ (mode = "stopwatch" /\ isRunning /\ lastOp' = "update"
                  /\ now - lastUpdateTime >= UPDATE_INTERVAL
                  /\ currentTime + (now - lastUpdateTime) >= MAX_DURATION
                  => /\ currentTime' = MAX_DURATION
                     /\ ~isRunning'
                     /\ Has(events', "maxDurationReached")
                     /\ frames' = 0)
         ]_vars

C6_Witness ==
    /\ mode = "stopwatch"
    /\ lastOp = "update"
    /\ currentTime = MAX_DURATION
    /\ events = <<"pause", "maxDurationReached">>
    /\ frames = 0

\* C7: 0 <= currentTime <= MAX_DURATION and 0 <= targetTime <= MAX_DURATION in
\* every reachable state; setTargetTime with an argument out of that range
\* throws and changes nothing.
C7_TimesInRange ==
    /\ [](/\ 0 <= currentTime /\ currentTime <= MAX_DURATION
          /\ 0 <= targetTime /\ targetTime <= MAX_DURATION)
    /\ [][ lastOp' = "setTargetTime"
             /\ (lastArg' < 0 \/ lastArg' > MAX_DURATION)
             => threw' /\ events' = <<>> /\ UNCHANGED EngineFields ]_vars

C7_Witness ==
    /\ lastOp = "setTargetTime"
    /\ lastArg = MAX_DURATION + 1
    /\ threw
    /\ targetTime = MAX_DURATION
    /\ currentTime = MAX_DURATION

\* C8 as stated: an engine that finishes on its own (countdown at 0, stopwatch
\* at the maximum duration) ends Idle: isRunning = false and isPaused = false.
C8_Original ==
    lastOp = "update"
        /\ (Has(events, "complete") \/ Has(events, "maxDurationReached"))
        => ~isRunning /\ ~isPaused

\* C8 amended: a countdown that reaches 0 ends Idle (isRunning = false,
\* isPaused = false); a stopwatch that reaches the maximum duration ends
\* Paused (isRunning = false, isPaused = true), because it stops by pause().
C8_FinishedState ==
    /\ (lastOp = "update" /\ Has(events, "complete")
           => ~isRunning /\ ~isPaused)
    /\ (lastOp = "update" /\ Has(events, "maxDurationReached")
           => ~isRunning /\ isPaused)

C8_Witness ==
    /\ lastOp = "update"
    /\ Has(events, "maxDurationReached")
    /\ isPaused
    /\ ~isRunning

\* C9: after reset() or setMode(m) with a valid mode the engine is Idle with
\* currentTime = targetTime in Countdown mode and 0 in Stopwatch mode (and the
\* mode is m); setMode with any other value throws, changes no state and emits
\* no event.
C9_ResetAndSetMode ==
    /\ [](lastOp \in {"reset", "setMode"} /\ ~threw
            => /\ ~isRunning /\ ~isPaused
               /\ currentTime = (IF mode = "countdown" THEN targetTime ELSE 0)
               /\ (lastOp = "setMode" => mode = lastArg))
    /\ [][ lastOp' = "setMode"
             => IF lastArg' \in {"countdown", "stopwatch"}
                THEN ~threw'
                ELSE threw' /\ events' = <<>> /\ UNCHANGED EngineFields ]_vars

C9_Witness ==
    /\ lastOp = "setMode"
    /\ ~threw
    /\ mode = "stopwatch"
    /\ Has(events, "pause")
    /\ currentTime = 0
    /\ ~isRunning /\ ~isPaused

\* C10 as stated: setMode on a running engine emits pause, then modeChanged,
\* then reset, each once.
C10_Original ==
    [][ lastOp' = "setMode" /\ ~threw' /\ isRunning
            => events' = <<"pause", "modeChanged", "reset">> ]_vars

\* C10 amended: setMode on a running engine emits pause, then reset, then
\* modeChanged, each once.
C10_SetModeEventOrder ==
    [][ lastOp' = "setMode" /\ ~threw' /\ isRunning
            => events' = <<"pause", "reset", "modeChanged">> ]_vars

C10_Witness ==
    lastOp = "setMode" /\ events = <<"pause", "reset", "modeChanged">>

\* ------------------------------------------------------------------------
ZeroCountdown == mode = "countdown" /\ currentTime <= 0

\* C11 as stated: a countdown whose currentTime is <= 0 never enters Running;
\* start() on it emits exactly one error event, throws nothing and changes no
\* field; CountdownTimer.start() throws and changes nothing.
C11_Original ==
    [][/\ (ZeroCountdown /\ ~isRunning => ~isRunning')
       /\ (ZeroCountdown /\ lastOp' = "start"
              => events' = <<"error">> /\ ~threw' /\ UNCHANGED EngineFields)
       /\ (ZeroCountdown /\ lastOp' = "CountdownTimer.start"
              => threw' /\ events' = <<>> /\ UNCHANGED EngineFields)]_vars

\* C11: a countdown whose currentTime is <= 0 is not made Running by anything
\* but resume(); start() on it, when the engine is not running, emits exactly
\* one error event, throws nothing, emits no start event, schedules no callback
\* and changes no state field; CountdownTimer.start() throws and leaves the
\* engine unchanged.
C11_ZeroCountdownNotStarted ==
    [][/\ (ZeroCountdown /\ ~isRunning /\ lastOp' # "resume" => ~isRunning')
       /\ (ZeroCountdown /\ ~isRunning /\ lastOp' = "start"
              => events' = <<"error">> /\ ~threw' /\ UNCHANGED EngineFields)
       /\ (ZeroCountdown /\ lastOp' = "CountdownTimer.start"
              => threw' /\ events' = <<>> /\ UNCHANGED EngineFields)]_vars

\* start() has just refused a paused countdown that has no time left.
C11_Witness ==
    /\ lastOp = "start"
    /\ events = <<"error">>
    /\ isPaused
    /\ ZeroCountdown

\* ------------------------------------------------------------------------
\* A call the engine has nothing to do for.
NoOpCall ==
    \/ lastOp' = "start" /\ isRunning
    \/ lastOp' = "pause" /\ (~isRunning \/ isPaused)
    \/ lastOp' = "resume" /\ ~isPaused

\* C12: start() on a running engine, pause() on an engine that is not running
\* or is already paused, and resume() on an engine that is not paused change
\* no state field, emit no event and schedule no callback.
C12_NoOpCalls ==
    [][NoOpCall => UNCHANGED EngineFields /\ events' = <<>> /\ ~threw']_vars

\* resume() has just been called on a running engine and did nothing.
C12_Witness ==
    /\ lastOp = "resume"
    /\ isRunning
    /\ events = <<>>

\* ------------------------------------------------------------------------
\* The listeners invoked for the events evs when the CountdownTimer listens
\* to cd and the Stopwatch to sw, the faulty listener being registered first.
RECURSIVE ExpectedCalls(_, _, _)
ExpectedCalls(evs, cd, sw) ==
    IF evs = <<>>
    THEN <<>>
    ELSE LET event == Head(evs) IN
         <<<<event, "faulty">>>>
         \o (IF event \in cd THEN <<<<event, "CountdownTimer">>>> ELSE <<>>)
         \o (IF event \in sw THEN <<<<event, "Stopwatch">>>> ELSE <<>>)
         \o ExpectedCalls(Tail(evs), cd, sw)

\* The fields of the engine value e, in the order of EngineFields, and what
\* the wrappers keep.
Fields(e) ==
    <<e.mode, e.isRunning, e.isPaused, e.currentTime, e.targetTime,
      e.startTime, e.animationFrameId, e.frames, e.lastUpdateTime,
      e.eventListeners>>

\* The operation op applied to the engine value e at time t.
Effect(e, op, arg, t) ==
    CASE op = "setMode" -> setMode(e, arg)
      [] op = "start" -> start(e, t)
      [] op = "pause" -> pause(e)
      [] op = "resume" -> resume(e, t)
      [] op = "reset" -> reset(e)
      [] op = "destroy" -> destroy(e)
      [] op = "update" -> update(fireFrame(e), t)
      [] OTHER -> e

\* C13: when a listener throws during the emission of an engine event, every
\* other listener registered for that event is still invoked once, in
\* registration order; no exception reaches the caller or the scheduler; and
\* the engine state afterwards is what it is when that listener returns
\* normally.
C13_ListenerExceptionContained ==
    [][faultyListener /\ events' # <<>> =>
          LET quiet == Effect([Eng EXCEPT !.faultyListener = FALSE],
                              lastOp', lastArg', now)
          IN /\ ~threw'
             /\ logged' = (IF lastOp' = "destroy" THEN 0 ELSE Len(events'))
             /\ calls' = (IF lastOp' = "destroy" THEN <<>>
                          ELSE ExpectedCalls(events', eventListeners,
                                             stopwatchListeners))
             /\ EngineFields' = Fields(quiet)
             /\ warningsTriggered' = quiet.warningsTriggered
             /\ milestonesReached' = quiet.milestonesReached
             /\ completionCalls' = quiet.completionCalls]_vars

\* An applied update delivered its tick to the listener that throws and then
\* to both wrappers.
C13_Witness ==
    /\ faultyListener
    /\ lastOp = "update"
    /\ logged = 1
    /\ calls = <<<<"tick", "faulty">>, <<"tick", "CountdownTimer">>,
                 <<"tick", "Stopwatch">>>>

\* ------------------------------------------------------------------------
\* The operation of the last step threw on an argument out of range.
RejectedArgument ==
    \/ lastOp = "setMode" /\ ~ValidMode(lastArg)
    \/ lastOp = "setTargetTime" /\ ~ValidTargetTime(lastArg)

\* C14 as stated: after destroy() the engine has no listeners, is not running
\* and has no pending callback, however often destroy() is called; and no
\* later start, resume, pause, reset, setTargetTime or setMode with valid
\* arguments throws or restarts the progression loop.
C14_Original ==
    destroyed =>
        /\ eventListeners = {}
        /\ stopwatchListeners = {}
        /\ ~isRunning
        /\ frames = 0
        /\ (threw => RejectedArgument)

\* ------------------------------------------------------------------------
\* C15 as stated: at most one progression callback is ever pending, and one
\* is pending only while the engine is running, also when a listener calls
\* pause(), reset() or destroy() from inside a tick emission and when start()
\* or resume() follows.
C15_Original ==
    /\ frames <= 1
    /\ (frames > 0 => isRunning)

\* ------------------------------------------------------------------------
\* The total of a pair <<minutes, seconds>>, in milliseconds.
TotalOf(d) == (d[1] * 60 + d[2]) * 1000

\* The pairs that C16 says setDuration refuses.
Refused(d) ==
    \/ d[1] < 0 \/ d[2] < 0
    \/ d[1] > 1440
    \/ d[2] >= 60
    \/ TotalOf(d) = 0

\* C16 as stated: setDuration(minutes, seconds) fails, leaving the engine
\* state and the warning set untouched and emitting no engine event, exactly
\* when minutes < 0, seconds < 0, minutes > 1440, seconds >= 60 or the total
\* is zero; for every other input it returns the total in milliseconds and
\* leaves the engine Idle in Countdown mode with targetTime = currentTime =
\* that total and an empty warning set.
C16_Original ==
    [][lastOp' = "setDuration" =>
          IF Refused(lastArg')
          THEN /\ threw'
               /\ events' = <<>>
               /\ UNCHANGED <<EngineFields, warningsTriggered>>
          ELSE /\ ~threw'
               /\ returned' = TotalOf(lastArg')
               /\ mode' = "countdown"
               /\ ~isRunning' /\ ~isPaused'
               /\ targetTime' = TotalOf(lastArg')
               /\ currentTime' = TotalOf(lastArg')
               /\ warningsTriggered' = {}]_vars

\* ------------------------------------------------------------------------
\* C17 as stated: validateDuration(minutes, seconds) changes no timer state,
\* and its isValid is true exactly when setDuration(minutes, seconds)
\* succeeds, with totalMilliseconds equal to the value setDuration returns
\* (and 0 when invalid).
C17_Original ==
    [][/\ (lastOp' = "validateDuration" =>
              UNCHANGED <<EngineFields, warningsTriggered, milestonesReached,
                          completionCallbacks>>)
       /\ (lastOp' = "setDuration" =>
              LET v == validateDuration(lastArg'[1], lastArg'[2]) IN
              /\ v.isValid <=> ~threw'
              /\ v.totalMilliseconds = (IF threw' THEN 0 ELSE returned'))]_vars

\* ------------------------------------------------------------------------
\* C18: between two clearings of the warning set (by a reset event or a
\* setDuration call) each of the six warning thresholds fires at most once,
\* and at most one threshold fires on any single tick.
C18_WarningsOnce ==
    /\ \A th \in DOMAIN alerts : alerts[th] <= 1
    /\ Len(warnings) <= 1

\* The last of the six thresholds has just fired, each of them once.
C18_Witness ==
    /\ lastOp = "update"
    /\ warnings = <<1000>>
    /\ \A th \in DOMAIN alerts : alerts[th] = 1

\* ------------------------------------------------------------------------
\* The scheduler callback of the last step completed a countdown of at least
\* one minute.
LongRunCompleted ==
    /\ lastOp = "update"
    /\ Has(events, "complete")
    /\ targetTime >= 60000

\* C19 as stated: when a countdown run of at least 60000 ms completes, each of
\* the six warning thresholds has triggered exactly one alert, however the
\* scheduler callbacks were spaced.
C19_Original ==
    LongRunCompleted => \A th \in DOMAIN alerts : alerts[th] = 1

\* C19: when a countdown run of at least 60000 ms completes, each of the six
\* warning thresholds has triggered at most one alert, and a threshold has
\* triggered one only if every larger threshold has.
C19_AlertsByCompletion ==
    LongRunCompleted =>
        /\ \A th \in DOMAIN alerts : alerts[th] <= 1
        /\ \A i \in DOMAIN warningThresholds :
               i > 1 /\ alerts[warningThresholds[i]] = 1
                   => alerts[warningThresholds[i - 1]] = 1

\* A countdown of one minute has completed after all six alerts.
C19_Witness ==
    /\ LongRunCompleted
    /\ \A th \in DOMAIN alerts : alerts[th] = 1

\* ------------------------------------------------------------------------
\* C20 as stated: between two reset events each milestone fires at most once,
\* in the Stopwatch (each millisecond threshold and each LeBron minute mark)
\* and in the CountdownTimer (each minute mark of the milestone set).
C20_Original ==
    [][\A i \in DOMAIN milestones' :
          /\ milestones'[i] \notin milestonesFired
          /\ \A j \in DOMAIN milestones' : milestones'[j] = milestones'[i] => j = i]_vars

\* ------------------------------------------------------------------------
\* C21: recordLap() throws when currentTime is 0, leaving the lap list as it
\* was and invoking no lap callback; otherwise it appends exactly one record
\* whose lapNumber is the previous count plus one, whose totalTime is
\* currentTime and whose lapTime is currentTime minus the totalTime of the
\* previous record (currentTime for the first lap), and hands that record
\* once to every lap callback.
LastTotal == IF lapTimes = <<>> THEN 0 ELSE lapTimes[Len(lapTimes)].totalTime

C21_RecordLap ==
    [][lastOp' = "recordLap"
       => IF currentTime = 0
          THEN threw' /\ lapTimes' = lapTimes /\ laps' = <<>>
          ELSE /\ ~threw'
               /\ Len(lapTimes') = Len(lapTimes) + 1
               /\ SubSeq(lapTimes', 1, Len(lapTimes)) = lapTimes
               /\ LET lap == lapTimes'[Len(lapTimes')] IN
                  /\ lap.lapNumber = Len(lapTimes) + 1
                  /\ lap.totalTime = currentTime
                  /\ lap.lapTime = currentTime - LastTotal
                  /\ laps' = [i \in 1..lapCallbacks |-> lap]
                  /\ returned' = lap ]_vars

\* A second lap, shorter than the run, was handed to a lap callback.
C21_Witness ==
    /\ lastOp = "recordLap"
    /\ ~threw
    /\ Len(lapTimes) = 2
    /\ lapTimes[1] = [lapNumber |-> 1, lapTime |-> LapTime, totalTime |-> LapTime]
    /\ lapTimes[2].lapTime < lapTimes[2].totalTime
    /\ laps = <<lapTimes[2]>>

\* ------------------------------------------------------------------------
\* C22: the lap list grows only while the engine is running with a nonzero
\* elapsed time: recordLap() never appends a record while the engine is
\* paused or idle.
C22_Original ==
    [][Len(lapTimes') > Len(lapTimes) => isRunning /\ currentTime # 0]_vars

\* ------------------------------------------------------------------------
\* C23: after every reset event the engine emits (by reset() or by setMode(),
\* running or not) the Stopwatch's lap list and milestone set and the
\* CountdownTimer's warning set are all empty.
DerivedSetsEmpty ==
    lapTimes = <<>> /\ milestonesReached = {} /\ warningsTriggered = {}

C23_Original == Has(events, "reset") => DerivedSetsEmpty

\* ------------------------------------------------------------------------
\* C24 (as stated): after setDuration(5, 0) and start(), once 150,000 ms have
\* elapsed in 100 ms steps the engine has currentTime = 0 and isRunning =
\* false, and the completion callback was invoked exactly once with
\* originalDuration = 300000.
Elapsed(d) ==
    /\ lastOp = "update"
    /\ mode = "countdown"
    /\ targetTime = ScenarioDuration
    /\ now - startTime = d

Completed ==
    /\ currentTime = 0
    /\ ~isRunning
    /\ completedRun

C24_Original == Elapsed(150000) => Completed

\* C24 (amended): the countdown of 300,000 ms completes when 300,000 ms have
\* elapsed, and not before: the update at that time leaves currentTime = 0
\* and isRunning = false and invokes every completion callback once with
\* originalDuration = 300000; until then the countdown runs with
\* currentTime = 300000 minus the elapsed time and no completion.
C24_FiveMinuteCountdown ==
    /\ Elapsed(ScenarioDuration)
         => /\ Completed
            /\ events = <<"complete">>
            /\ completionCalls =
                 [i \in 1..completionCallbacks |->
                    [mode |-> "countdown", finalTime |-> 0,
                     originalDuration |-> 300000]]
    /\ (now - startTime < ScenarioDuration /\ Elapsed(now - startTime))
         => /\ isRunning
            /\ currentTime = ScenarioDuration - (now - startTime)
            /\ ~completedRun
            /\ completionCalls = <<>>
    /\ completedRun => now - startTime = ScenarioDuration

C24_Witness ==
    /\ Elapsed(ScenarioDuration)
    /\ Completed
    /\ Len(completionCalls) = 1

\* ------------------------------------------------------------------------
\* C25: every effective call of start(), pause(), resume() and reset() emits
\* exactly one event, of its own name, before it returns and after its state
\* change is complete (its listeners see the flags the call leaves); so the
\* events are observed in call order, and setDuration() on a timer that is
\* not running contributes the single reset.
LifecycleEvents == {"start", "pause", "resume", "reset"}

IsLifecycle(event) == event \in LifecycleEvents

EffectiveCall ==
    CASE lastOp' \in {"start", "CountdownTimer.start"}
           -> ~isRunning /\ ~ZeroCountdown /\ ~threw'
      [] lastOp' = "pause" -> isRunning /\ ~isPaused
      [] lastOp' = "resume" -> isPaused
      [] lastOp' = "reset" -> TRUE
      [] OTHER -> FALSE

OwnEvent == IF lastOp' = "CountdownTimer.start" THEN "start" ELSE lastOp'

C25_OneEventPerCall ==
    [][/\ EffectiveCall
          => /\ events' = <<OwnEvent>>
             /\ seen' = << <<OwnEvent, isRunning', isPaused'>> >>
       /\ (lastOp' = "setDuration" /\ ~threw' /\ ~isRunning)
          => SelectSeq(events', IsLifecycle) = <<"reset">>
      ]_vars

\* pause() was called on the running countdown, and its listeners saw it paused.
C25_Witness ==
    /\ lastOp = "pause"
    /\ events = <<"pause">>
    /\ seen = << <<"pause", FALSE, TRUE>> >>
    /\ isPaused

\* ------------------------------------------------------------------------
\* C26: for every integer ms in [0, 86,400,000], formatTime(ms) is MM:SS when
\* floor(ms / 3600000) = 0 and HH:MM:SS otherwise (always HH:MM:SS with
\* forceHours), with hours = floor(ms / 3600000), minutes = floor(ms / 60000)
\* mod 60 and seconds = floor(ms / 1000) mod 60, each as two digits; so
\* 3599000 gives "59:59", 3600000 "01:00:00" and 3601000 "01:00:01".
TwoDigits(n) == <<Digits[(n \div 10) + 1], Digits[(n % 10) + 1]>>

Clock(ms, forceHours) ==
    LET hours == ms \div 3600000
        minutes == (ms \div 60000) % 60
        seconds == (ms \div 1000) % 60
    IN IF hours = 0 /\ ~forceHours
       THEN TwoDigits(minutes) \o <<":">> \o TwoDigits(seconds)
       ELSE TwoDigits(hours) \o <<":">> \o TwoDigits(minutes)
                \o <<":">> \o TwoDigits(seconds)

FormattedNumber ==
    /\ lastOp = "formatTime"
    /\ lastArg[1].type = "number"
    /\ lastArg[1].num \in 0..MAX_DURATION

C26_FormatRule ==
    /\ FormattedNumber
         => returned = Clock(lastArg[1].num, <<"forceHours", TRUE>> \in lastArg[2])
    /\ Clock(3599000, FALSE) = <<"5", "9", ":", "5", "9">>
    /\ Clock(3600000, FALSE) = <<"0", "1", ":", "0", "0", ":", "0", "0">>
    /\ Clock(3601000, FALSE) = <<"0", "1", ":", "0", "0", ":", "0", "1">>

\* One hour and one second was formatted, with the default options.
C26_Witness ==
    /\ FormattedNumber
    /\ lastArg = <<Num(3601000), {}>>
    /\ returned = <<"0", "1", ":", "0", "0", ":", "0", "1">>

\* ------------------------------------------------------------------------
\* C27: for every ms in [0, 86,400,000] that is a whole number of seconds,
\* parseTime(formatTime(ms)) = ms.
C27_RoundTrip ==
    (FormattedNumber /\ lastArg[2] = {} /\ lastArg[1].num % 1000 = 0)
        => parseTime(returned) = Parsed(lastArg[1].num)

\* 23:59:59 was formatted, and parses to the same number.
C27_Witness ==
    /\ FormattedNumber
    /\ lastArg = <<Num(MAX_DURATION - 1000), {}>>
    /\ Len(returned) = 8
    /\ parseTime(returned).value = MAX_DURATION - 1000

\* ------------------------------------------------------------------------
\* C28: formatTime returns "00:00" for every negative or non-numeric first
\* argument, whatever calls of formatTime came before: the cache never
\* changes the result of a call.
C28_Original ==
    (lastOp = "formatTime" /\ (lastArg[1].type # "number" \/ lastArg[1].num < 0))
        => returned = ZeroText

\* ------------------------------------------------------------------------
\* C29: parseTime fails for every input whose seconds or minutes component is
\* 60 or more, in each notation it accepts (MM:SS, HH:MM:SS, compact), and
\* for every non-empty string that matches none of its patterns; it returns
\* 0 for the empty string.
MinutesAndSeconds(t) ==
    IF ColonAt(t) # {}
    THEN LET k == CHOOSE k \in ColonAt(t) : TRUE IN
         IF Len(t) = k + 5
         THEN <<parseInt(SubSeq(t, k + 1, k + 2)), parseInt(SubSeq(t, k + 4, k + 5))>>
         ELSE <<parseInt(SubSeq(t, 1, k - 1)), parseInt(SubSeq(t, k + 1, k + 2))>>
    ELSE LET ij == CHOOSE ij \in CompactAt(t) : TRUE IN
         <<parseInt(LeadingDigits(SubSeq(t, ij[1] + 1, ij[2]))),
           parseInt(LeadingDigits(SubSeq(t, ij[2] + 1, Len(t))))>>

C29_Original ==
    lastOp = "parseTime" =>
        LET t == trim(lastArg) IN
        IF t = <<>> THEN ~threw /\ returned = 0
        ELSE IF ColonAt(t) # {} \/ CompactAt(t) # {}
        THEN (MinutesAndSeconds(t)[1] >= 60 \/ MinutesAndSeconds(t)[2] >= 60)
                 => threw
        ELSE ~AllDigits(t) => threw

\* ------------------------------------------------------------------------
\* C30: when the user pauses a timer and then starts it again in the same
\* mode through the application's startTimer, the timer continues from the
\* paused currentTime: the paused time, and for the stopwatch the recorded
\* laps, are not discarded.
C30_Original ==
    [][(isPaused /\ lastOp' = "startTimer" /\ lastArg' = mode)
          => /\ currentTime' = currentTime
             /\ mode = "stopwatch" => lapTimes' = lapTimes]_vars

\* ------------------------------------------------------------------------
\* C31: on each tick the warning that fires is for the first threshold of the
\* descending list that satisfies currentTime <= threshold and has not fired
\* since the warning set was last cleared, and no other fires; so thresholds
\* fire in strictly descending order, and the set of fired thresholds is at
\* every moment a prefix of the list 60000, 30000, 10000, 5000, 3000, 1000.
Prefix(n) == {warningThresholds[i] : i \in 1..n}

Due(time) ==
    {i \in DOMAIN warningThresholds :
        warningThresholds[i] \notin warningsTriggered /\ time <= warningThresholds[i]}

C31_FirstThresholdFires ==
    [][/\ \E n \in 0..Len(warningThresholds) : warningsTriggered' = Prefix(n)
       /\ (lastOp' = "update" /\ Has(events', "tick") /\ "tick" \in eventListeners)
          => /\ warnings' = IF Due(currentTime') = {} THEN <<>>
                            ELSE <<warningThresholds[First(Due(currentTime'))]>>
             /\ warningsTriggered' = warningsTriggered \cup Range(warnings')
             /\ \A th \in Range(warnings') : \A w \in warningsTriggered : w > th
      ]_vars

\* The second threshold fired, after the first and before the others.
C31_Witness ==
    /\ lastOp = "update"
    /\ warnings = <<30000>>
    /\ warningsTriggered = {60000, 30000}

\* ------------------------------------------------------------------------
\* C32: the CountdownTimer fires its milestone on every tick whose currentTime
\* satisfies floor(currentTime / 60000) in {6, 12, 18, 23, 30, 46, 60}, again
\* on each tick for as long as the time stays within that minute (whether or
\* not it fired before), and on no other tick.
CountdownMilestones(ms) ==
    SelectSeq(ms, LAMBDA m : m[1] = "CountdownTimer")

C32_MilestoneEveryTick ==
    [][(lastOp' = "update" /\ Has(events', "tick") /\ "tick" \in eventListeners)
          => CountdownMilestones(milestones') =
                 IF (currentTime' \div 60000) \in {6, 12, 18, 23, 30, 46, 60}
                 THEN << <<"CountdownTimer", "minute", currentTime' \div 60000>> >>
                 ELSE <<>>
      ]_vars

\* A tick 200 ms after the start of a seven-minute countdown, in the minute
\* that floors to 6, fired the milestone.
C32_Witness ==
    /\ lastOp = "update"
    /\ mode = "countdown"
    /\ currentTime = 7 * 60000 - 200
    /\ now - startTime = 200
    /\ <<"CountdownTimer", "minute", 6>> \in Range(milestones)


\* C33: a callback of a running engine that arrives less than UPDATE_INTERVAL
\* after lastUpdateTime changes no field of the engine, emits nothing and
\* leaves one more callback requested; a tick is emitted only when at least
\* UPDATE_INTERVAL has passed since lastUpdateTime, and sets lastUpdateTime to
\* the clock; lastUpdateTime never runs ahead of the clock and changes only to
\* the present clock, in a step that emits start, resume or tick.  Two
\* consecutive ticks are therefore at least UPDATE_INTERVAL apart.
C33_UpdateInterval ==
    /\ [](lastUpdateTime <= now)
    /\ [][ /\ (lastOp' = "update" /\ isRunning /\ ~isPaused
                  /\ now - lastUpdateTime < UPDATE_INTERVAL)
              => /\ UNCHANGED EngineFields
                 /\ events' = <<>>
                 /\ frames' >= 1
                 /\ animationFrameId' = "live"
           /\ (lastOp' = "update" /\ Has(events', "tick"))
              => /\ now - lastUpdateTime >= UPDATE_INTERVAL
                 /\ lastUpdateTime' = now
           /\ lastUpdateTime' # lastUpdateTime
              => /\ lastUpdateTime' = now'
                 /\ lastUpdateTime' > lastUpdateTime
                 /\ \/ Has(events', "start")
                    \/ Has(events', "resume")
                    \/ lastOp' = "update" /\ Has(events', "tick")
         ]_vars

\* A callback came 50 ms after the start and was put off.
C33_Witness ==
    /\ lastOp = "update"
    /\ isRunning
    /\ events = <<>>
    /\ now - lastUpdateTime = 50
    /\ lastUpdateTime = startTime
    /\ frames = 1


\* C34: a run that is not paused starts from targetTime (countdown) or from 0
\* (stopwatch), and after every update that emitted a tick currentTime differs
\* from that value by exactly the clock time since the start, subtracted in
\* countdown mode and added in stopwatch mode, however the callbacks were
\* spaced.
C34_ElapsedFromClock ==
    /\ (lastOp = "start" /\ Has(events, "start"))
       => /\ startTime = now
          /\ currentTime = IF mode = "countdown" THEN targetTime ELSE 0
    /\ (lastOp = "update" /\ Has(events, "tick"))
       => currentTime = IF mode = "countdown"
                        THEN targetTime - (now - startTime)
                        ELSE now - startTime

\* A stopwatch started at 130 ticked at 300 and, after a callback that came
\* too early, again at 400.
C34_Witness ==
    /\ mode = "stopwatch"
    /\ lastOp = "update"
    /\ Has(events, "tick")
    /\ startTime = 130
    /\ now = 400
    /\ currentTime = 270


\* C35: every scheduler callback that changes currentTime emits exactly one
\* tick, and the tick's listeners see the running flag of the state the
\* update leaves - the updates reaching 0 and the cap included.
C35_Original ==
    [][ (lastOp' = "update" /\ currentTime' # currentTime)
           => /\ Len(SelectSeq(events', LAMBDA ev : ev = "tick")) = 1
              /\ \E i \in 1..Len(seen') :
                     /\ seen'[i][1] = "tick"
                     /\ seen'[i][2] = isRunning'
      ]_vars


\* C36: the reset event of a reset() or setMode() call carries wasRunning =
\* TRUE exactly when the engine was running when the call was made.
C36_Original ==
    [][ (lastOp' \in {"reset", "setMode"} /\ Has(events', "reset"))
           => wasRunning' = <<isRunning>> ]_vars


\* C37: TimerEngine.formatTime(x) returns what formatTime(x) of a fresh
\* TimeFormatter returns under its default options, and
\* TimerEngine.parseTime(s) fails exactly when the formatter's parseTime(s)
\* fails and otherwise returns the same milliseconds.
C37_Original ==
    /\ lastOp = "TimerEngine.formatTime"
       => returned = formatTime(<<>>, lastArg, {}).result
    /\ lastOp = "TimerEngine.parseTime"
       => /\ threw = ~parseTime(lastArg).ok
          /\ ~threw => <<returned>> = <<parseTime(lastArg).value>>


\* C38: in countdown mode 0 <= currentTime <= targetTime in every state, so
\* that, whenever targetTime > 0, the quotient (targetTime - currentTime) /
\* targetTime of getProgress() has a numerator between 0 and its denominator
\* and Math.max(0, Math.min(1, ...)) returns it as it is.
C38_CountdownWithinTarget ==
    mode = "countdown"
        => /\ currentTime <= targetTime
           /\ targetTime > 0
                  => /\ 0 <= targetTime - currentTime
                     /\ targetTime - currentTime <= targetTime

\* A running countdown part of the way to zero.
C38_Witness ==
    /\ mode = "countdown"
    /\ lastOp = "update"
    /\ isRunning
    /\ 0 < currentTime
    /\ currentTime < targetTime


\* C39: an update that emitted a tick has invoked warning callbacks only in
\* countdown mode, and milestone callbacks of the Stopwatch only in stopwatch
\* mode.
C39_Original ==
    (lastOp = "update" /\ Has(events, "tick"))
        => /\ warnings # <<>> => mode = "countdown"
           /\ SelectSeq(milestones, LAMBDA m : m[1] = "Stopwatch") # <<>>
                  => mode = "stopwatch"

====
